---- MODULE Spec2Model ----
(***************************************************************************)
(* Record lifecycle and version management of RecordService                *)
(* (src/src/services/record.service.ts): the Record, RecordVersion,        *)
(* RecordOtherVersion, RecordNoteComment and PdfFile tables and the        *)
(* service operations that write them.                                     *)
(*                                                                         *)
(* Spec, SpecReview, SpecLifecycle, SpecDelete, SpecModify, SpecCreate,    *)
(* SpecTx : every service call runs to completion before the next one      *)
(*            starts; each specification draws the calls of one part of    *)
(*            the service. SpecDelete, SpecModify, SpecCreate and SpecTx   *)
(*            also draw the failures a call can meet: a statement of its   *)
(*            transaction, the commit, the rollback, the PDF steps and     *)
(*            the calls made after the commit.                             *)
(* SpecVersionFaults : createNewVersion and deleteVersion, one call at a    *)
(*            time, in which a database statement may reject.              *)
(* SpecFields, SpecPdf : validateCustomFields and processPdfFile applied   *)
(*            to arguments held in the initial state.                      *)
(* SpecConc, SpecConcDelete, SpecConcReview, SpecConcModify : two requests *)
(*            run createNewVersion, deleteVersion, rejectRecord with       *)
(*            approveRecord or updateRecord, or modifyRecord at the same   *)
(*            time and are interleaved at their database round trips       *)
(*            (each await).                                                *)
(***************************************************************************)
EXTENDS Integers, Sequences, FiniteSets, TLC

(***************************************************************************)
(* Bounds of the model.                                                    *)
(***************************************************************************)
\* RecordVersion rows ever inserted (createNewVersion is disabled beyond).
MaxVersionRows == 3
\* RecordNoteComment rows ever inserted.
MaxNotes == 1
\* RecordOtherVersion rows ever inserted (modifyRecord is disabled beyond).
MaxOtherVersions == 3
\* Titles passed to createRecord have at most this many characters.
MaxTitleLen == 3

(***************************************************************************)
(* Identifiers and the tables the service only reads.                      *)
(***************************************************************************)
\* Primary keys Record.create hands out, in the order they are used.
RecordOrder == <<"r1", "r2">>
RecordIds == { RecordOrder[i] : i \in DOMAIN RecordOrder }
\* A record id no row ever has (findByPk returns null).
MissingRecordId == "r0"

\* User rows.
Users == {"u1", "u2", "u3", "u4", "u5"}
\* A user id with no User row.
MissingUserId == "u0"

\* Cabinet rows: createdById (the owner) and approvers.
Cabinets == {"c1", "c2"}
MissingCabinetId == "c0"
CabinetCreatedById == [c \in Cabinets |-> IF c = "c1" THEN "u2" ELSE "u5"]
CabinetApprovers == [c \in Cabinets |-> IF c = "c1" THEN {"u3"} ELSE {"u2"}]
\* CabinetMember rows.
CabinetMemberRows ==
    { [cabinetId |-> "c1", userId |-> "u4", role |-> "member_full"],
      [cabinetId |-> "c1", userId |-> "u5", role |-> "member_read"],
      [cabinetId |-> "c2", userId |-> "u5", role |-> "member_full"],
      [cabinetId |-> "c2", userId |-> "u4", role |-> "member_read"] }

\* RecordStatus
Statuses == {"draft", "pending", "approved", "rejected", "archived"}

\* The five file-descriptor columns, kept together. NoFile: all five null.
NoFile == [fileName |-> <<>>, filePath |-> <<>>, fileSize |-> <<>>,
           fileType |-> <<>>, fileHash |-> <<>>]
\* The descriptor of the k-th file uploaded: uploads differ in every column.
Upload(k) == [fileName |-> <<"name", k>>, filePath |-> <<"/uploads", k>>,
              fileSize |-> <<1024 * (k + 1)>>, fileType |-> <<"type", k>>,
              fileHash |-> <<"hash", k>>]
\* The file carried by an Attachment field at creation, and the one a
\* Partial<Record> sets.
AttachedFile == Upload(0)
PatchedFile == Upload(-1)

\* An absent row / an absent (undefined) property of a data object.
NoRecord == [absent |-> TRUE]
Undef == "undefined"
\* The place of a row that record.destroy removed: its primary key is not
\* handed out again.
DestroyedRecord == [destroyed |-> TRUE]

VARIABLES
    records,        \* Record table: record id -> row, or NoRecord
    versions,       \* RecordVersion table: a set of rows
    nextVersionId,  \* how many RecordVersion rows were ever inserted, plus one
    notes,          \* RecordNoteComment table, in insertion order
    hist,           \* per record: the version numbers createNewVersion assigned
                    \* and deleteVersion removed, in call order
    last,           \* the outcome of the last completed service call
    calls,          \* SpecConc: the position and locals of each running request
    otherVersions,  \* RecordOtherVersion table, in insertion order
    pdfFiles,       \* PdfFile table: a set of rows
    thrown          \* the error the last call threw to its caller, and whether
                    \* its transaction was open when the error was raised

vars == <<records, versions, nextVersionId, notes, hist, last, calls,
          otherVersions, pdfFiles, thrown>>

(***************************************************************************)
(* Helpers: values of the data objects the calls receive.                  *)
(***************************************************************************)
\* String.prototype.trim on a title held as a sequence of characters.
\* Titles are sequences of characters. NoTitle: data.title is undefined.
NoTitle == <<Undef>>
\* The characters trim removes: the space, tab, line feed, carriage return
\* and form feed stand for the white space and line terminators of Unicode.
Whitespace == {" ", "\t", "\n", "\r", "\f"}
RECURSIVE TrimLeft(_)
TrimLeft(s) ==
    IF s # <<>> /\ Head(s) \in Whitespace THEN TrimLeft(Tail(s)) ELSE s
RECURSIVE TrimRight(_)
TrimRight(s) ==
    IF s # <<>> /\ s[Len(s)] \in Whitespace
      THEN TrimRight(SubSeq(s, 1, Len(s) - 1)) ELSE s
Trim(s) == TrimRight(TrimLeft(s))

\* Mutant of TitleMissing: the title is not trimmed before the test.
TitleMissing_Untrimmed(title) == title = NoTitle \/ title = <<>>

\* `!data.title || !data.title.trim()`: the title is undefined, empty, or
\* empty once trimmed.
TitleMissing(title) == title = NoTitle \/ title = <<>> \/ Trim(title) = <<>>

\* Partial<Record> objects spread into record.update by updateRecord,
\* approveRecord and rejectRecord. A property is <<v>> when the object has
\* it with value v, and <<>> when the object does not have it.
EmptyPatch == [status |-> <<>>, version |-> <<>>, file |-> <<>>]


\* instance.update(values): the properties present in `values` overwrite
\* the row's columns, the others keep their value.
ApplyPatch(row, patch) ==
    [row EXCEPT !.status = IF patch.status = <<>> THEN @ ELSE patch.status[1],
                !.version = IF patch.version = <<>> THEN @ ELSE patch.version[1],
                !.file = IF patch.file = <<>> THEN @ ELSE patch.file[1]]

(***************************************************************************)
(* Helpers: queries on the tables.                                         *)
(***************************************************************************)
SetMax(S) == CHOOSE x \in S : \A y \in S : y <= x

\* RecordVersion rows `where: { recordId }`
VersionsOf(rid) == { v \in versions : v.recordId = rid }

VersionNumbersOf(rid) == { v.version : v \in VersionsOf(rid) }

\* Record.findByPk(id)
RecordExists(rid) ==
    rid \in RecordIds /\ records[rid] # NoRecord /\ records[rid] # DestroyedRecord

\* cabinet.approvers?.some(approver => approver.userId === userId)
IsApprover(cabinetId, userId) == userId \in CabinetApprovers[cabinetId]

\* Mutant of IsMemberFull: `cabinetId` is missing from the where clause.
IsMemberFull_AnyCabinet(cabinetId, userId) ==
    \E m \in CabinetMemberRows : m.userId = userId /\ m.role = "member_full"

\* CabinetMember.findOne({ where: { cabinetId, userId, role: 'member_full' } })
IsMemberFull(cabinetId, userId) ==
    \E m \in CabinetMemberRows :
        m.cabinetId = cabinetId /\ m.userId = userId /\ m.role = "member_full"

\* The outcome of a completed call, as its caller sees it: 200 for a
\* returned value, otherwise the statusCode of the AppError thrown.
Outcome(op, code) == [op |-> op, code |-> code]

\* What a call throws. error: "none" when the call returns, "AppError" for
\* an AppError of the service, otherwise the name of the step whose failure
\* reached the caller ("rollback" for the error of transaction.rollback).
\* inTx: sequelize.transaction() had returned and the transaction was not
\* committed when the error was raised.
NoError == [error |-> "none", inTx |-> FALSE]
Thrown(error, inTx) == [error |-> error, inTx |-> inTx]
\* An AppError with the given status code, 200 standing for no error.
ThrownCode(code, inTx) == IF code = 200 THEN NoError ELSE Thrown("AppError", inTx)

\* The failures a call meets. fail: the step that fails, "none" when every
\* step succeeds; rollbackFails: transaction.rollback() rejects if called.
NoFault == [fail |-> "none", rollbackFails |-> FALSE]
FaultsAt(steps) == [fail : steps \cup {"none"}, rollbackFails : BOOLEAN]

\* catch (error) { await transaction.rollback(); throw error; }
CatchUnguarded(error, f) == IF f.rollbackFails THEN "rollback" ELSE error
\* catch (error) { try { await transaction.rollback(); }
\*                 catch (rollbackError) { console.error(..) } throw error; }
CatchGuarded(error, f) == error

\* The statements of an operation that bear on its transaction, in the order
\* the code runs them. "begin" is `await sequelize.transaction()`; "check"
\* stands for the tests that throw the AppErrors of the operation; after
\* "commit" come ActivityService.logActivity, the NotificationService call
\* (in updateRecord after Cabinet.findByPk) and the re-fetch of the record;
\* "absent" is the test of updateRecord that its re-fetch found a record.
StatementOrder(op) ==
    CASE op \in {"createRecord", "createRecordWithFiles"} ->
           <<"check", "begin", "create", "associate", "commit">>
      [] op = "deleteRecord" ->
           <<"check", "begin", "destroyVersions", "destroyRecord", "commit">>
      [] op = "modifyRecord" ->
           <<"check", "begin", "trim", "create", "commit", "activity", "notification">>
      [] op = "updateRecord" ->
           <<"begin", "check", "update", "comment", "commit", "activity", "cabinet",
             "notification", "refetch", "absent">>
      [] op = "approveRecord" ->
           <<"begin", "check", "update", "note", "commit", "activity", "notification",
             "refetch">>
      [] op = "rejectRecord" ->
           <<"begin", "check", "update", "comment", "commit", "activity", "notification",
             "refetch">>
\* The transaction of op is open when `step` throws: sequelize.transaction()
\* has returned and transaction.commit() has not.
OpenAt(op, step) ==
    LET order == StatementOrder(op)
        at(x) == CHOOSE i \in DOMAIN order : order[i] = x
    IN  at("begin") < at(step) /\ at(step) <= at("commit")

\* The steps of a try block that run before the commit is durable, and those
\* that follow the commit.
BeforeCommit(steps) ==
    steps \ {"activity", "cabinet", "notification", "refetch", "absent"}
AfterCommit(steps) ==
    steps \cap {"activity", "cabinet", "notification", "refetch", "absent"}
\* The status code a caller sees for an error that is not an AppError.
ServerError == 500

\* The requests that can be running at the same time.
Procs == {"p1", "p2"}
Idle == [pc |-> "idle"]
NoCalls == [p \in Procs |-> Idle]

Init ==
    /\ records = [r \in RecordIds |-> NoRecord]
    /\ versions = {}
    /\ nextVersionId = 1
    /\ notes = <<>>
    /\ hist = [r \in RecordIds |-> <<>>]
    /\ last = Outcome("none", 200)
    /\ calls = NoCalls
    /\ otherVersions = <<>>
    /\ pdfFiles = {}
    /\ thrown = NoError

(***************************************************************************)
(* createRecord / createRecordWithFiles                                    *)
(***************************************************************************)
\* The primary key Record.create assigns: the first unused one.
UnusedRecordIds == { i \in DOMAIN RecordOrder : records[RecordOrder[i]] = NoRecord }
FreshRecordId ==
    RecordOrder[CHOOSE i \in UnusedRecordIds : \A j \in UnusedRecordIds : i <= j]

\* The row Record.create inserts. fileInfo is the value of the first
\* validated Attachment field, NoFile when there is none.
NewRecordRow(title, cabinetId, creatorId, status, fileInfo) ==
    [title |-> Trim(title), cabinetId |-> cabinetId, creatorId |-> creatorId,
     status |-> status, version |-> 1, file |-> fileInfo,
     lastModifiedBy |-> creatorId]

\* The error the checks before the transaction raise, 200 when they pass.
\* fieldsOk: validateCustomFields returned (it throws AppError 400 otherwise).
CreateRecordCode(title, cabinetId, creatorId, fieldsOk) ==
    IF TitleMissing(title) THEN 400
    ELSE IF cabinetId \notin Cabinets THEN 400
    ELSE IF creatorId \notin Users THEN 400
    ELSE IF ~fieldsOk THEN 400
    ELSE 200

\* data.pdfFile and what happens to it: "none" when no pdfFile is supplied,
\* "ok" when it is extracted, written and persisted, otherwise the step that
\* fails: extractPdfContent, writeFileAsync, or PdfFile.create. The latter
\* fails either before its INSERT is sent ("persistRejected") or in the
\* database ("persistAborts"), which leaves the transaction aborted: the
\* COMMIT that follows then ends it as a rollback without raising.
NoPdf == "none"
PdfArgs == {NoPdf, "ok", "extractFails", "writeFails", "persistRejected",
            "persistAborts"}

\* The rows PdfFile.create inserts for record `id`: none when the write or
\* the insert fails, the fallback text when the extraction fails.
NewPdfFileRows(id, pdf) ==
    IF pdf \in {"ok", "extractFails"}
      THEN { [recordId |-> id,
              extractedText |-> IF pdf = "ok" THEN "extracted"
                                ELSE "PDF text extraction failed"] }
      ELSE {}

\* What `await transaction.commit()` makes durable: everything written in
\* the transaction, or nothing when a statement of the transaction failed in
\* the database.
CommitKeeps(pdf) == pdf # "persistAborts"

\* The steps of the try block that can throw to the catch block.
CreateRecordSteps(op, fileIds) ==
    IF op = "createRecord" THEN {"create", "commit"}
    ELSE IF fileIds THEN {"create", "associate", "commit"}
    ELSE {"create", "commit"}

\* createRecord (op = "createRecord", fileIds = FALSE) and
\* createRecordWithFiles (pdf = NoPdf) under the failures f.
CreateRecordWith(op, f, pdf, fileIds, title, cabinetId, creatorId, status, fieldsOk, fileInfo) ==
    LET code == CreateRecordCode(title, cabinetId, creatorId, fieldsOk)
        id == IF UnusedRecordIds # {} THEN FreshRecordId ELSE MissingRecordId
        failed == code = 200 /\ f.fail \in CreateRecordSteps(op, fileIds)
        kept == code = 200 /\ ~failed /\ CommitKeeps(pdf)
    IN  /\ code = 200 => UnusedRecordIds # {}
        /\ records' = IF kept
                        THEN [records EXCEPT ![id] =
                                NewRecordRow(title, cabinetId, creatorId, status, fileInfo)]
                        ELSE records
        /\ pdfFiles' = IF kept THEN pdfFiles \cup NewPdfFileRows(id, pdf)
                       ELSE pdfFiles
        /\ last' = Outcome(op, IF failed THEN ServerError ELSE code)
        /\ thrown' = IF failed THEN Thrown(CatchUnguarded(f.fail, f), OpenAt(op, f.fail))
                     ELSE ThrownCode(code, OpenAt(op, "check"))
        /\ UNCHANGED <<versions, nextVersionId, notes, hist, calls, otherVersions>>

CreateRecordAs(op, title, cabinetId, creatorId, status, fieldsOk, fileInfo) ==
    CreateRecordWith(op, NoFault, NoPdf, FALSE, title, cabinetId, creatorId, status,
                     fieldsOk, fileInfo)

CreateRecord(title, cabinetId, creatorId, status, fieldsOk, fileInfo) ==
    CreateRecordAs("createRecord", title, cabinetId, creatorId, status, fieldsOk, fileInfo)

CreateRecordWithFiles(title, cabinetId, creatorId, status, fieldsOk, fileInfo) ==
    CreateRecordAs("createRecordWithFiles", title, cabinetId, creatorId, status,
                   fieldsOk, fileInfo)

(***************************************************************************)
(* createNewVersion                                                        *)
(***************************************************************************)
\* Mutant of NextVersionNumber: the latest version is looked up in ascending
\* order, so the lowest version number is the one incremented.
NextVersionNumber_Ascending(rows) ==
    IF rows = {} THEN 1
    ELSE (CHOOSE x \in { v.version : v \in rows } :
            \A y \in { v.version : v \in rows } : x <= y) + 1

\* `latestVersion ? latestVersion.version + 1 : 1`, latestVersion being the
\* row of the record with the greatest version.
NextVersionNumber(rows) ==
    IF rows = {} THEN 1 ELSE SetMax({ v.version : v \in rows }) + 1

\* The row RecordVersion.create inserts.
NewVersionRow(id, rid, n, file, uploadedBy) ==
    [id |-> id, recordId |-> rid, version |-> n, file |-> file,
     uploadedBy |-> uploadedBy]

\* The RecordVersion table after an INSERT of `row`. The table accepts any
\* row: no constraint on (recordId, version) rejects an insert.
InsertVersionRow(rows, row) == rows \cup {row}

\* record.update({filePath, fileName, fileSize, fileType, fileHash, version,
\* lastModifiedBy}) with a file descriptor and a version number.
PointRecordAt(row, file, n, uid) ==
    [row EXCEPT !.file = file, !.version = n, !.lastModifiedBy = uid]

CreateNewVersion(rid, file, uploadedBy) ==
    IF ~RecordExists(rid)
      THEN /\ last' = Outcome("createNewVersion", 404)
           /\ thrown' = ThrownCode(404, FALSE)
           /\ UNCHANGED <<records, versions, nextVersionId, notes, hist, calls,
                          otherVersions, pdfFiles>>
      ELSE LET n == NextVersionNumber(VersionsOf(rid))
           IN  /\ nextVersionId <= MaxVersionRows
               /\ versions' = InsertVersionRow(versions,
                                NewVersionRow(nextVersionId, rid, n, file, uploadedBy))
               /\ nextVersionId' = nextVersionId + 1
               /\ records' = [records EXCEPT ![rid] =
                                PointRecordAt(@, file, n, uploadedBy)]
               /\ hist' = [hist EXCEPT ![rid] =
                             Append(@, [kind |-> "create", version |-> n])]
               /\ last' = Outcome("createNewVersion", 200)
               /\ thrown' = NoError
               /\ UNCHANGED <<notes, calls, otherVersions, pdfFiles>>

(***************************************************************************)
(* deleteVersion                                                           *)
(***************************************************************************)
\* Mutant of MayDeleteVersion: the permission set of deleteRecord is used.
MayDeleteVersion_AsDeleteRecord(row, uid) ==
    \/ row.creatorId = uid
    \/ CabinetCreatedById[row.cabinetId] = uid
    \/ IsApprover(row.cabinetId, uid)
    \/ IsMemberFull(row.cabinetId, uid)

\* `record.creatorId !== userId && cabinet.createdById !== userId` is the
\* refusal; this is its negation.
MayDeleteVersion(row, uid) ==
    row.creatorId = uid \/ CabinetCreatedById[row.cabinetId] = uid

\* Mutant of IsActiveVersion: the Record is re-pointed on every deletion.
IsActiveVersion_Always(row, version) == TRUE

\* `version.version === record.version`
IsActiveVersion(row, version) == version.version = row.version

\* RecordVersion.findOne({ where: { recordId, version: { [Op.lt]: n } },
\* order: [['version', 'DESC']] }): the rows it can return.
PreviousVersions(rows, n) ==
    { v \in rows : /\ v.version < n
                   /\ \A w \in rows : w.version < n => w.version <= v.version }

\* Mutant of DeleteVersionCode: the only-version check is missing.
DeleteVersionCode_NoCountCheck(rid, vid, uid) ==
    IF ~RecordExists(rid) THEN 404
    ELSE IF records[rid].cabinetId \notin Cabinets THEN 404
    ELSE IF ~(records[rid].creatorId = uid
              \/ CabinetCreatedById[records[rid].cabinetId] = uid) THEN 403
    ELSE IF ~\E v \in VersionsOf(rid) : v.id = vid THEN 404
    ELSE 200

\* Mutant of DeleteVersionCode: the rows are counted without `where`.
DeleteVersionCode_CountAll(rid, vid, uid) ==
    IF ~RecordExists(rid) THEN 404
    ELSE IF records[rid].cabinetId \notin Cabinets THEN 404
    ELSE IF ~(records[rid].creatorId = uid
              \/ CabinetCreatedById[records[rid].cabinetId] = uid) THEN 403
    ELSE IF ~\E v \in VersionsOf(rid) : v.id = vid THEN 404
    ELSE IF Cardinality(versions) = 1 THEN 400
    ELSE 200

\* The error deleteVersion throws for these arguments, 200 when it deletes.
DeleteVersionCode(rid, vid, uid) ==
    IF ~RecordExists(rid) THEN 404
    ELSE IF records[rid].cabinetId \notin Cabinets THEN 404
    ELSE IF ~MayDeleteVersion(records[rid], uid) THEN 403
    ELSE IF ~\E v \in VersionsOf(rid) : v.id = vid THEN 404
    ELSE IF Cardinality(VersionsOf(rid)) = 1 THEN 400
    ELSE 200

DeleteVersion(rid, vid, uid) ==
    LET code == DeleteVersionCode(rid, vid, uid)
    IN  /\ last' = Outcome("deleteVersion", code)
        /\ thrown' = ThrownCode(code, FALSE)
        /\ IF code # 200
             THEN UNCHANGED <<records, versions, nextVersionId, notes, hist, calls,
                             otherVersions, pdfFiles>>
             ELSE LET version == CHOOSE v \in VersionsOf(rid) : v.id = vid
                      prev == PreviousVersions(VersionsOf(rid), version.version)
                  IN  /\ IF IsActiveVersion(records[rid], version) /\ prev # {}
                           THEN \E p \in prev :
                                  records' = [records EXCEPT ![rid] =
                                    PointRecordAt(@, p.file, p.version, uid)]
                           ELSE UNCHANGED records
                      /\ versions' = versions \ {version}
                      /\ hist' = [hist EXCEPT ![rid] =
                            Append(@, [kind |-> "delete", version |-> version.version])]
                      /\ UNCHANGED <<nextVersionId, notes, calls, otherVersions, pdfFiles>>

\* createNewVersion and deleteVersion open no transaction: each statement
\* commits on its own, and a statement that rejects ends the call with what
\* the earlier statements wrote.
CreateNewVersionSteps == {"create", "update"}
DeleteVersionSteps == {"update", "destroy"}
\* The failures of a call that has no transaction to roll back.
PlainFaults(steps) == { f \in FaultsAt(steps) : ~f.rollbackFails }

\* createNewVersion in which the statement f.fail rejects.
CreateNewVersionWith(f, rid, file, uploadedBy) ==
    IF ~RecordExists(rid) \/ f.fail \notin CreateNewVersionSteps
      THEN CreateNewVersion(rid, file, uploadedBy)
      ELSE LET n == NextVersionNumber(VersionsOf(rid))
               created == f.fail # "create"
           IN  /\ nextVersionId <= MaxVersionRows
               /\ versions' = IF created
                                THEN InsertVersionRow(versions,
                                       NewVersionRow(nextVersionId, rid, n, file, uploadedBy))
                                ELSE versions
               /\ nextVersionId' = IF created THEN nextVersionId + 1 ELSE nextVersionId
               /\ hist' = IF created
                            THEN [hist EXCEPT ![rid] =
                                    Append(@, [kind |-> "create", version |-> n])]
                            ELSE hist
               /\ last' = Outcome("createNewVersion", ServerError)
               /\ thrown' = Thrown(f.fail, FALSE)
               /\ UNCHANGED <<records, notes, calls, otherVersions, pdfFiles>>

\* deleteVersion in which the statement f.fail rejects; record.update runs
\* only when the active version is deleted and a previous version exists.
DeleteVersionWith(f, rid, vid, uid) ==
    IF DeleteVersionCode(rid, vid, uid) # 200 \/ f.fail \notin DeleteVersionSteps
      THEN DeleteVersion(rid, vid, uid)
      ELSE LET version == CHOOSE v \in VersionsOf(rid) : v.id = vid
               prev == PreviousVersions(VersionsOf(rid), version.version)
               updates == IsActiveVersion(records[rid], version) /\ prev # {}
           IN  IF f.fail = "update" /\ ~updates
                 THEN DeleteVersion(rid, vid, uid)
                 ELSE /\ IF f.fail = "destroy" /\ updates
                           THEN \E p \in prev :
                                  records' = [records EXCEPT ![rid] =
                                    PointRecordAt(@, p.file, p.version, uid)]
                           ELSE UNCHANGED records
                      /\ last' = Outcome("deleteVersion", ServerError)
                      /\ thrown' = Thrown(f.fail, FALSE)
                      /\ UNCHANGED <<versions, nextVersionId, notes, hist, calls,
                                     otherVersions, pdfFiles>>


(***************************************************************************)
(* deleteRecord                                                            *)
(***************************************************************************)
\* Mutant of MayDeleteRecord: `role: 'member_full'` is missing from the
\* CabinetMember lookup, so that any member of the cabinet passes.
MayDeleteRecord_AnyRole(row, uid) ==
    \/ row.creatorId = uid
    \/ CabinetCreatedById[row.cabinetId] = uid
    \/ IsApprover(row.cabinetId, uid)
    \/ \E m \in CabinetMemberRows : m.cabinetId = row.cabinetId /\ m.userId = uid

\* `!isCreator && !isCabinetOwner && !isApprover && !isMemberFull` is the
\* refusal; this is its negation.
MayDeleteRecord(row, uid) ==
    \/ row.creatorId = uid
    \/ CabinetCreatedById[row.cabinetId] = uid
    \/ IsApprover(row.cabinetId, uid)
    \/ IsMemberFull(row.cabinetId, uid)

\* The error deleteRecord throws before it opens its transaction, 200 when
\* the checks pass. The cabinet is joined with `required: true`.
DeleteRecordCode(id, userId) ==
    IF ~RecordExists(id) THEN 404
    ELSE IF records[id].cabinetId \notin Cabinets THEN 404
    ELSE IF ~MayDeleteRecord(records[id], userId) THEN 403
    ELSE 200

DeleteRecordSteps == {"destroyVersions", "destroyRecord", "commit"}

\* Mutant of InTransaction: the statement is run without `transaction`, so
\* that its write is durable at once.
InTransaction_Autocommit(before, after, committed) == after

\* A table written by a statement that was given `{ transaction }`: the
\* write is durable when the transaction commits, and undone otherwise.
InTransaction(before, after, committed) == IF committed THEN after ELSE before

\* Rows that go with their Record (ON DELETE CASCADE of the foreign key).
CascadeOtherVersions(rows, id) == SelectSeq(rows, LAMBDA o : o.originalRecordId # id)
CascadeNotes(rows, id) == SelectSeq(rows, LAMBDA n : n.recordId # id)
CascadePdfFiles(rows, id) == { f \in rows : f.recordId # id }

\* deleteRecord under the failures f.
DeleteRecord(f, id, userId) ==
    LET code == DeleteRecordCode(id, userId)
        failed == code = 200 /\ f.fail \in DeleteRecordSteps
        committed == code = 200 /\ ~failed
        \* the statements of the try block that ran to their end
        versionsDestroyed == code = 200 /\ f.fail # "destroyVersions"
        recordDestroyed == versionsDestroyed /\ f.fail # "destroyRecord"
    IN  /\ versions' = IF versionsDestroyed
                         THEN InTransaction(versions, versions \ VersionsOf(id), committed)
                         ELSE versions
        /\ records' = IF recordDestroyed
                        THEN InTransaction(records,
                               [records EXCEPT ![id] = DestroyedRecord], committed)
                        ELSE records
        /\ otherVersions' = IF recordDestroyed
                              THEN InTransaction(otherVersions,
                                     CascadeOtherVersions(otherVersions, id), committed)
                              ELSE otherVersions
        /\ notes' = IF recordDestroyed
                      THEN InTransaction(notes, CascadeNotes(notes, id), committed)
                      ELSE notes
        /\ pdfFiles' = IF recordDestroyed
                         THEN InTransaction(pdfFiles, CascadePdfFiles(pdfFiles, id),
                                            committed)
                         ELSE pdfFiles
        /\ last' = Outcome("deleteRecord", IF failed THEN ServerError ELSE code)
        /\ thrown' = IF failed
                       THEN Thrown(CatchUnguarded(f.fail, f), OpenAt("deleteRecord", f.fail))
                       ELSE ThrownCode(code, OpenAt("deleteRecord", "check"))
        /\ UNCHANGED <<nextVersionId, hist, calls>>

(***************************************************************************)
(* modifyRecord                                                            *)
(***************************************************************************)
\* RecordOtherVersion rows `where: { originalRecordId }`, in insertion order.
OtherVersionsOf(rows, recordId) ==
    SelectSeq(rows, LAMBDA o : o.originalRecordId = recordId)

\* Mutant of NextOtherVersion: the first snapshot is numbered 1.
NextOtherVersion_FromOne(rows) ==
    IF rows = <<>> THEN 1
    ELSE SetMax({ rows[i].version : i \in DOMAIN rows }) + 1

\* `latestVersion ? latestVersion.version + 1 : 2`, latestVersion being the
\* snapshot of the record with the greatest version.
NextOtherVersion(rows) ==
    IF rows = <<>> THEN 2
    ELSE SetMax({ rows[i].version : i \in DOMAIN rows }) + 1

\* The checks of modifyRecord, all made before its transaction opens. The
\* title is not among them.
ModifyRecordCode(recordId, cabinetId, creatorId, fieldsOk) ==
    IF ~RecordExists(recordId) THEN 404
    ELSE IF cabinetId \notin Cabinets THEN 400
    ELSE IF creatorId \notin Users THEN 400
    ELSE IF ~fieldsOk THEN 400
    ELSE 200

\* pdfFileInfo: set when the PDF was written to disk, whether or not its
\* text could be extracted; null when there is no pdfFile or the write failed.
PdfFileInfo(pdf) == IF pdf \in {"ok", "extractFails"} THEN Upload(0) ELSE NoFile

\* The row RecordOtherVersion.create inserts.
NewOtherVersionRow(recordId, title, cabinetId, creatorId, status, n, file) ==
    [originalRecordId |-> recordId, title |-> Trim(title), cabinetId |-> cabinetId,
     creatorId |-> creatorId, status |-> status, version |-> n, file |-> file,
     lastModifiedBy |-> creatorId]

\* Mutant of OriginalAfterModify: the submitted title and status are also
\* written to the original Record.
OriginalAfterModify_Overwritten(row, title, status, creatorId) ==
    [row EXCEPT !.title = Trim(title), !.status = status, !.lastModifiedBy = creatorId]

\* The original Record after modifyRecord: the row is read (description,
\* isTemplate, isActive) and no statement writes it.
OriginalAfterModify(row, title, status, creatorId) == row

\* "trim": `data.title.trim()` throws a TypeError for an undefined title,
\* inside the try block.
ModifyRecordSteps(title) ==
    {"create", "commit", "activity", "notification"}
      \cup (IF title = NoTitle THEN {"trim"} ELSE {})

\* modifyRecord under the failures f, with the pdfFile outcome pdf.
ModifyRecord(f, pdf, recordId, title, cabinetId, creatorId, status, fieldsOk) ==
    LET code == ModifyRecordCode(recordId, cabinetId, creatorId, fieldsOk)
        steps == ModifyRecordSteps(title)
        fail == IF title = NoTitle THEN "trim" ELSE f.fail
        failed == code = 200 /\ fail \in steps
        kept == code = 200 /\ fail \notin BeforeCommit(steps)
        newVersion == NextOtherVersion(OtherVersionsOf(otherVersions, recordId))
    IN  /\ kept => Len(otherVersions) < MaxOtherVersions
        /\ otherVersions' =
             IF kept
               THEN Append(otherVersions,
                      NewOtherVersionRow(recordId, title, cabinetId, creatorId, status,
                                         newVersion, PdfFileInfo(pdf)))
               ELSE otherVersions
        /\ records' = IF kept
                        THEN [records EXCEPT ![recordId] =
                                OriginalAfterModify(@, title, status, creatorId)]
                        ELSE records
        /\ last' = Outcome("modifyRecord", IF failed THEN ServerError ELSE code)
        /\ thrown' = IF failed
                       THEN Thrown(CatchUnguarded(fail, f), OpenAt("modifyRecord", fail))
                       ELSE ThrownCode(code, OpenAt("modifyRecord", "check"))
        /\ UNCHANGED <<versions, nextVersionId, notes, hist, calls, pdfFiles>>

(***************************************************************************)
(* updateRecord / approveRecord / rejectRecord                             *)
(***************************************************************************)
\* The row RecordNoteComment.create inserts.
NoteRow(rid, content, type, action, uid) ==
    [recordId |-> rid, content |-> content, type |-> type, action |-> action,
     createdBy |-> uid]

\* record.update({ ...data, lastModifiedBy: userId }) of updateRecord.
UpdatedRow(row, data, uid) ==
    [ApplyPatch(row, data) EXCEPT !.lastModifiedBy = uid]

\* The truthiness of a comments or note argument, as "if (data.comments)",
\* "if (comments)" and "note || 'Record approved'" test it: undefined and
\* the empty string are both falsy.
HasText(s) == s # Undef /\ s # ""

\* The steps of updateRecord's try block that can throw to the catch block.
\* "absent": no call fails, but the re-fetch after the commit finds no row
\* (a deleteRecord of another request has committed in between), and the
\* code throws AppError 404 'Updated record not found'.
UpdateRecordSteps(comments) ==
    {"update", "commit", "activity", "cabinet", "notification", "refetch", "absent"}
      \cup (IF HasText(comments) THEN {"comment"} ELSE {})

\* updateRecord under the failures f. The transaction is opened first; the
\* 404 and every failure are thrown inside the try block. When the re-fetch
\* finds no row, the record and the rows that go with it are gone, as the
\* deleteRecord that removed them leaves them.
UpdateRecordWith(f, rid, data, comments, uid) ==
    LET steps == UpdateRecordSteps(comments)
        found == RecordExists(rid)
        absent == found /\ f.fail = "absent"
        failed == found /\ f.fail \in steps \ {"absent"}
        kept == found /\ f.fail \notin BeforeCommit(steps)
    IN  /\ (found /\ HasText(comments)) => Len(notes) < MaxNotes
        /\ records' = IF absent THEN [records EXCEPT ![rid] = DestroyedRecord]
                      ELSE IF kept THEN [records EXCEPT ![rid] = UpdatedRow(@, data, uid)]
                      ELSE records
        /\ notes' = IF absent THEN CascadeNotes(notes, rid)
                    ELSE IF kept /\ HasText(comments)
                      THEN Append(notes, NoteRow(rid, comments, "comment", Undef, uid))
                    ELSE notes
        /\ versions' = IF absent THEN versions \ VersionsOf(rid) ELSE versions
        /\ otherVersions' = IF absent THEN CascadeOtherVersions(otherVersions, rid)
                            ELSE otherVersions
        /\ pdfFiles' = IF absent THEN CascadePdfFiles(pdfFiles, rid) ELSE pdfFiles
        /\ last' = Outcome("updateRecord",
                           IF ~found \/ absent THEN 404
                           ELSE IF failed THEN ServerError ELSE 200)
        /\ thrown' = IF ~found
                       THEN Thrown(CatchGuarded("AppError", f), OpenAt("updateRecord", "check"))
                     ELSE IF absent
                       THEN Thrown(CatchGuarded("AppError", f), OpenAt("updateRecord", "absent"))
                     ELSE IF failed
                       THEN Thrown(CatchGuarded(f.fail, f), OpenAt("updateRecord", f.fail))
                     ELSE NoError
        /\ UNCHANGED <<nextVersionId, hist, calls>>

UpdateRecord(rid, data, comments, uid) ==
    UpdateRecordWith(NoFault, rid, data, comments, uid)

\* Mutant of ApprovedRow: data is spread after status, so that a status in
\* data wins.
ApprovedRow_DataLast(row, data, uid) ==
    [ApplyPatch([row EXCEPT !.status = "approved"], data) EXCEPT !.lastModifiedBy = uid]

\* record.update({ ...data, status: APPROVED, lastModifiedBy: userId })
ApprovedRow(row, data, uid) ==
    [ApplyPatch(row, data) EXCEPT !.status = "approved", !.lastModifiedBy = uid]

ApproveRecordSteps == {"update", "note", "commit", "activity", "notification", "refetch"}

\* approveRecord under the failures f. The transaction is opened first; the
\* 404 and every failure are thrown inside the try block.
ApproveRecordWith(f, rid, uid, note, data) ==
    LET found == RecordExists(rid)
        failed == found /\ f.fail \in ApproveRecordSteps
        kept == found /\ f.fail \notin BeforeCommit(ApproveRecordSteps)
    IN  /\ found => Len(notes) < MaxNotes
        /\ records' = IF kept THEN [records EXCEPT ![rid] = ApprovedRow(@, data, uid)]
                      ELSE records
        /\ notes' = IF kept
                      THEN Append(notes,
                             NoteRow(rid, IF HasText(note) THEN note ELSE "Record approved",
                                     "system", "approve", uid))
                      ELSE notes
        /\ last' = Outcome("approveRecord",
                           IF ~found THEN 404 ELSE IF failed THEN ServerError ELSE 200)
        /\ thrown' = IF ~found
                       THEN Thrown(CatchGuarded("AppError", f), OpenAt("approveRecord", "check"))
                     ELSE IF failed
                       THEN Thrown(CatchGuarded(f.fail, f), OpenAt("approveRecord", f.fail))
                     ELSE NoError
        /\ UNCHANGED <<versions, nextVersionId, hist, calls, otherVersions, pdfFiles>>

ApproveRecord(rid, uid, note, data) ==
    ApproveRecordWith(NoFault, rid, uid, note, data)

\* The caller passes rejectRecord's authorization check.
MayReject(row, uid) ==
    IsApprover(row.cabinetId, uid) \/ IsMemberFull(row.cabinetId, uid)

\* Mutant of RejectRecordCode: the pending check is missing.
RejectRecordCode_NoPendingCheck(rid, uid) ==
    IF ~RecordExists(rid) THEN 404
    ELSE IF records[rid].cabinetId \notin Cabinets THEN 404
    ELSE IF ~(IsApprover(records[rid].cabinetId, uid)
              \/ IsMemberFull(records[rid].cabinetId, uid)) THEN 403
    ELSE 200

\* The error rejectRecord throws for these arguments, 200 when it rejects.
RejectRecordCode(rid, uid) ==
    IF ~RecordExists(rid) THEN 404
    ELSE IF records[rid].cabinetId \notin Cabinets THEN 404
    ELSE IF ~MayReject(records[rid], uid) THEN 403
    ELSE IF records[rid].status # "pending" THEN 400
    ELSE 200

\* record.update({ ...data, status: REJECTED, lastModifiedBy: userId })
RejectedRow(row, data, uid) ==
    [ApplyPatch(row, data) EXCEPT !.status = "rejected", !.lastModifiedBy = uid]

RejectRecordSteps(comments) ==
    {"update", "commit", "activity", "notification", "refetch"}
      \cup (IF HasText(comments) THEN {"comment"} ELSE {})

\* rejectRecord under the failures f. The transaction is opened first; the
\* AppErrors and every failure are thrown inside the try block.
RejectRecordWith(f, rid, uid, comments, data) ==
    LET code == RejectRecordCode(rid, uid)
        steps == RejectRecordSteps(comments)
        failed == code = 200 /\ f.fail \in steps
        kept == code = 200 /\ f.fail \notin BeforeCommit(steps)
    IN  /\ (code = 200 /\ HasText(comments)) => Len(notes) < MaxNotes
        /\ records' = IF kept THEN [records EXCEPT ![rid] = RejectedRow(@, data, uid)]
                      ELSE records
        /\ notes' = IF kept /\ HasText(comments)
                      THEN Append(notes, NoteRow(rid, comments, "comment", "reject", uid))
                      ELSE notes
        /\ last' = Outcome("rejectRecord", IF failed THEN ServerError ELSE code)
        /\ thrown' = IF code # 200
                       THEN Thrown(CatchGuarded("AppError", f), OpenAt("rejectRecord", "check"))
                     ELSE IF failed
                       THEN Thrown(CatchGuarded(f.fail, f), OpenAt("rejectRecord", f.fail))
                     ELSE NoError
        /\ UNCHANGED <<versions, nextVersionId, hist, calls, otherVersions, pdfFiles>>

RejectRecord(rid, uid, comments, data) ==
    RejectRecordWith(NoFault, rid, uid, comments, data)

(***************************************************************************)
(* validateCustomFields / validateFieldValue                               *)
(*                                                                         *)
(* JavaScript values are records tagged with their kind. What the code     *)
(* computes from a string (its length, its parse as a float, as a Number   *)
(* and as a Date) is computed from its characters.                         *)
(***************************************************************************)
Undefined == [t |-> "undefined"]
Null == [t |-> "null"]
Str(s) == [t |-> "string", s |-> s]
Num(n) == [t |-> "number", nan |-> FALSE, n |-> n]
NaN == [t |-> "number", nan |-> TRUE, n |-> 0]
Bool(b) == [t |-> "boolean", b |-> b]
\* An array, by its elements.
Arr(items) == [t |-> "array", items |-> items]
\* An object, by its own properties: a function from property names to values.
Obj(props) == [t |-> "object", props |-> props]
EmptyObj == Obj(<<>>)

\* The strings submitted.
JsStrings == {"", " ", "ab", "2024", "0x10", "1.-", "2024-02-03-"}
\* `s.length`
StrLen(s) == Len(s)
\* The character of s at position i, as a string of length one.
CharAt(s, i) == SubSeq(s, i, i)
\* What is left of s from position i on.
StrFrom(s, i) == SubSeq(s, i, Len(s))
DecimalDigits == {"0", "1", "2", "3", "4", "5", "6", "7", "8", "9"}
\* The longest run of decimal digits s begins with.
RECURSIVE DigitsPrefix(_)
DigitsPrefix(s) ==
    IF s # "" /\ CharAt(s, 1) \in DecimalDigits
      THEN CharAt(s, 1) \o DigitsPrefix(StrFrom(s, 2)) ELSE ""
\* The value of the digits s in a radix, read from the left onto the value
\* `sofar`; -1 when a character is no digit of the radix, and when the value
\* is above 2147483647, the greatest integer TLC holds: such numerals are
\* not among the strings of the model.
RECURSIVE RadixValue(_, _, _)
RadixValue(s, radix, sofar) ==
    IF s = "" THEN sofar
    ELSE LET digits == { d \in 0..(radix - 1) :
                           \/ CharAt("0123456789abcdef", d + 1) = CharAt(s, 1)
                           \/ CharAt("0123456789ABCDEF", d + 1) = CharAt(s, 1) }
             d == CHOOSE x \in digits : TRUE
         IN  IF digits = {} THEN -1
             ELSE IF sofar > (2147483647 - d) \div radix THEN -1
             ELSE RadixValue(StrFrom(s, 2), radix, radix * sofar + d)
\* s is a decimal numeral (of a value TLC holds).
IsNumeral(s) == s # "" /\ RadixValue(s, 10, 0) # -1
\* The value of a decimal numeral.
NumeralValue(s) == RadixValue(s, 10, 0)
\* `s.trim()` on a string.
RECURSIVE StrTrim(_)
StrTrim(s) ==
    IF s # "" /\ CharAt(s, 1) \in Whitespace THEN StrTrim(StrFrom(s, 2))
    ELSE IF s # "" /\ CharAt(s, Len(s)) \in Whitespace
      THEN StrTrim(SubSeq(s, 1, Len(s) - 1))
    ELSE s
\* `n.toString()`
NumToString(v) == IF v.nan THEN "NaN" ELSE ToString(v.n)
\* A decimal numeral with an optional sign, as parseFloat and Number read
\* it; NaN when s is no such numeral.
SignedNumeral(s) ==
    LET signed == Len(s) > 1 /\ CharAt(s, 1) \in {"+", "-"}
        digits == IF signed THEN StrFrom(s, 2) ELSE s
    IN  IF ~IsNumeral(digits) THEN NaN
        ELSE IF signed /\ CharAt(s, 1) = "-" THEN Num(0 - NumeralValue(digits))
        ELSE Num(NumeralValue(digits))
\* `parseFloat(s.trim())`: the longest decimal numeral the trimmed string
\* begins with. The numbers of the model are integers: no string carries a
\* decimal point, an exponent or "Infinity".
ParseFloatTrim(s) ==
    LET t == StrTrim(s)
        sign == IF t # "" /\ CharAt(t, 1) \in {"+", "-"} THEN CharAt(t, 1) ELSE ""
    IN  SignedNumeral(sign \o DigitsPrefix(StrFrom(t, Len(sign) + 1)))
\* `Number(s)` for a string: white space around it is skipped; 0 for what
\* is then empty, the value of a signed decimal numeral or of an unsigned
\* hexadecimal (0x), octal (0o) or binary (0b) one, otherwise NaN.
StringToNumber(s) ==
    LET t == StrTrim(s)
        prefix == SubSeq(t, 1, 2)
        radix == IF Len(t) < 2 THEN 10
                 ELSE IF prefix \in {"0x", "0X"} THEN 16
                 ELSE IF prefix \in {"0o", "0O"} THEN 8
                 ELSE IF prefix \in {"0b", "0B"} THEN 2
                 ELSE 10
        literal == IF Len(t) = 2 THEN -1 ELSE RadixValue(StrFrom(t, 3), radix, 0)
    IN  IF t = "" THEN Num(0)
        ELSE IF radix = 10 THEN SignedNumeral(t)
        ELSE IF literal = -1 THEN NaN
        ELSE Num(literal)

\* A time value: the days since 1 January 1970 and the milliseconds within
\* the day. TLC's integers cannot hold the milliseconds since 1970.
TimeValue(days, ms) == [nan |-> FALSE, days |-> days, ms |-> ms]
InvalidTime == [nan |-> TRUE, days |-> 0, ms |-> 0]
\* The number of leap years before year y, up to a constant.
LeapsBefore(y) == ((y - 1) \div 4) - ((y - 1) \div 100) + ((y - 1) \div 400)
\* MakeDay: the days from 1 January 1970 to day d of month m of year y; a
\* day beyond the end of the month runs into the next month.
DaysFromCivil(y, m, d) ==
    LET leap == LeapsBefore(y + 1) - LeapsBefore(y) = 1
        before == <<0, 31, 59, 90, 120, 151, 181, 212, 243, 273, 304, 334>>
    IN  365 * (y - 1970) + LeapsBefore(y) - LeapsBefore(1970)
          + before[m] + (IF leap /\ m > 2 THEN 1 ELSE 0) + (d - 1)
\* TimeClip: a time of `days` days and `ms` milliseconds (of any sign) is a
\* time value when it is within 100,000,000 days of 1 January 1970.
TimeClip(days, ms) ==
    LET d == days + (ms \div 86400000)
        rest == ms % 86400000
    IN  IF d >= -100000000 /\ (d < 100000000 \/ (d = 100000000 /\ rest = 0))
          THEN TimeValue(d, rest) ELSE InvalidTime

(***************************************************************************)
(* Date.parse of Node's engine, which `new Date(string)` calls: the string *)
(* is cut into tokens; the ISO form is read first, and what it leaves is   *)
(* read by the engine's own parser of other date formats. The local time   *)
(* zone is taken to be UTC. Of the control characters only tab, line feed, *)
(* form feed and carriage return are written in strings, and of the white  *)
(* space of Unicode only these and the space.                              *)
(***************************************************************************)
\* The value of a slot that has not been set.
kNone == 2147483647
\* The characters below "A". Every other character is part of a word.
BelowA ==
    Whitespace \cup DecimalDigits \cup
      {"!", "\"", "#", "$", "%", "&", "'", "(", ")", "*", "+", ",", "-", ".", "/",
       ":", ";", "<", "=", ">", "?", "@"}
\* The longest run of word characters s begins with.
RECURSIVE WordPrefix(_)
WordPrefix(s) ==
    IF s # "" /\ CharAt(s, 1) \notin BelowA
      THEN CharAt(s, 1) \o WordPrefix(StrFrom(s, 2)) ELSE ""
\* A word with its letters A to Z in lower case.
RECURSIVE ToLowerCase(_)
ToLowerCase(s) ==
    IF s = "" THEN ""
    ELSE LET at == { i \in 1..26 : CharAt("ABCDEFGHIJKLMNOPQRSTUVWXYZ", i) = CharAt(s, 1) }
         IN  (IF at = {} THEN CharAt(s, 1)
              ELSE CharAt("abcdefghijklmnopqrstuvwxyz", CHOOSE i \in at : TRUE))
               \o ToLowerCase(StrFrom(s, 2))
\* The words the parser knows: month names, am and pm, names of time zones
\* with their hours from UTC, and the T of the ISO form.
KeywordTable ==
    {<<"jan", "MONTH_NAME", 1>>, <<"feb", "MONTH_NAME", 2>>, <<"mar", "MONTH_NAME", 3>>,
     <<"apr", "MONTH_NAME", 4>>, <<"may", "MONTH_NAME", 5>>, <<"jun", "MONTH_NAME", 6>>,
     <<"jul", "MONTH_NAME", 7>>, <<"aug", "MONTH_NAME", 8>>, <<"sep", "MONTH_NAME", 9>>,
     <<"oct", "MONTH_NAME", 10>>, <<"nov", "MONTH_NAME", 11>>, <<"dec", "MONTH_NAME", 12>>,
     <<"am", "AM_PM", 0>>, <<"pm", "AM_PM", 12>>,
     <<"ut", "TIME_ZONE_NAME", 0>>, <<"utc", "TIME_ZONE_NAME", 0>>,
     <<"z", "TIME_ZONE_NAME", 0>>, <<"gmt", "TIME_ZONE_NAME", 0>>,
     <<"cdt", "TIME_ZONE_NAME", -5>>, <<"cst", "TIME_ZONE_NAME", -6>>,
     <<"edt", "TIME_ZONE_NAME", -4>>, <<"est", "TIME_ZONE_NAME", -5>>,
     <<"mdt", "TIME_ZONE_NAME", -6>>, <<"mst", "TIME_ZONE_NAME", -7>>,
     <<"pdt", "TIME_ZONE_NAME", -7>>, <<"pst", "TIME_ZONE_NAME", -8>>,
     <<"t", "TIME_SEPARATOR", 0>>}
\* A token: a number (its value n, its count of digits len), a symbol c, a
\* keyword (its type c, its value n, the length of the word), white space,
\* anything else ("unknown"), or the end of the input. len is the count of
\* characters the token takes.
DateToken(k, n, len, c) == [k |-> k, n |-> n, len |-> len, c |-> c]
EndOfInput == DateToken("end", 0, 0, "")
\* The keyword a word is: a word of the table, in any case, and any word that
\* begins with the three letters of a month; "INVALID" for any other word.
Lookup(word) ==
    LET lower == ToLowerCase(SubSeq(word, 1, IF Len(word) < 3 THEN Len(word) ELSE 3))
        found == { e \in KeywordTable :
                     /\ e[1] = lower
                     /\ (Len(word) <= 3 \/ e[2] = "MONTH_NAME") }
    IN  IF found = {} THEN DateToken("keyword", 0, Len(word), "INVALID")
        ELSE LET e == CHOOSE x \in found : TRUE
             IN  DateToken("keyword", e[3], Len(word), e[2])
\* ReadUnsignedNumeral: the value of a run of digits, of which the zeros in
\* front are skipped and the first nine digits after them are read.
RECURSIVE ReadUnsignedNumeral(_)
ReadUnsignedNumeral(digits) ==
    IF digits # "" /\ CharAt(digits, 1) = "0" THEN ReadUnsignedNumeral(StrFrom(digits, 2))
    ELSE NumeralValue(SubSeq(digits, 1, IF Len(digits) < 9 THEN Len(digits) ELSE 9))
\* SkipParentheses: the count of characters from the "(" at position 1 to the
\* ")" that closes it, or to the end of s when none does. `balance` is the
\* count of parentheses open before position i.
RECURSIVE SkipParentheses(_, _, _)
SkipParentheses(s, i, balance) ==
    LET after == IF CharAt(s, i) = ")" THEN balance - 1
                 ELSE IF CharAt(s, i) = "(" THEN balance + 1
                 ELSE balance
    IN  IF after > 0 /\ i < Len(s) THEN SkipParentheses(s, i + 1, after) ELSE i
\* Scan: the token a non-empty string begins with.
Scan(s) ==
    LET c == CharAt(s, 1)
    IN  IF c \in DecimalDigits
          THEN DateToken("number", ReadUnsignedNumeral(DigitsPrefix(s)), Len(DigitsPrefix(s)), "")
        ELSE IF c \in {":", "-", "+", ".", ")"} THEN DateToken("symbol", 0, 1, c)
        ELSE IF c \notin BelowA THEN Lookup(WordPrefix(s))
        ELSE IF c \in Whitespace THEN DateToken("whitespace", 0, 1, "")
        ELSE IF c = "(" THEN DateToken("unknown", 0, SkipParentheses(s, 1, 0), "")
        ELSE DateToken("unknown", 0, 1, "")
\* The tokens of a string, in order.
RECURSIVE DateTokens(_)
DateTokens(s) ==
    IF s = "" THEN <<>> ELSE <<Scan(s)>> \o DateTokens(StrFrom(s, Scan(s).len + 1))
\* The i-th token; past the last one, the end of the input.
TokenAt(tokens, i) == IF i <= Len(tokens) THEN tokens[i] ELSE EndOfInput
IsSymbol(token, c) == token.k = "symbol" /\ token.c = c
IsAsciiSign(token) == token.k = "symbol" /\ token.c \in {"+", "-"}
IsFixedNumber(token, length) == token.k = "number" /\ token.len = length
IsKeywordZ(token) == token.k = "keyword" /\ token.c = "TIME_ZONE_NAME" /\ token.len = 1
\* ReadMilliseconds: the digits after a decimal point as milliseconds, from
\* the first three of them.
ReadMilliseconds(token) ==
    LET length == IF token.len > 9 THEN 9 ELSE token.len
        factor == [l \in 4..9 |-> CASE l = 4 -> 10 [] l = 5 -> 100 [] l = 6 -> 1000
                                    [] l = 7 -> 10000 [] l = 8 -> 100000 [] l = 9 -> 1000000]
    IN  IF length = 1 THEN token.n * 100
        ELSE IF length = 2 THEN token.n * 10
        ELSE IF length = 3 THEN token.n
        ELSE token.n \div factor[length]

\* What the parser has collected: the numbers of the day composer (at most
\* three) with the month given by name and whether the date is in the ISO
\* form, the numbers of the time composer (at most four) with the offset of
\* am or pm, and the sign, hours and minutes of the time zone. `failed`: the
\* parser has given up.
NoDate ==
    [day |-> <<>>, named |-> kNone, iso |-> FALSE, time |-> <<>>, hourOffset |-> kNone,
     tzSign |-> kNone, tzHour |-> kNone, tzMinute |-> kNone, failed |-> FALSE]
\* TimeZoneComposer::Set
TzSet(st, hours) ==
    [st EXCEPT !.tzSign = IF hours < 0 THEN -1 ELSE 1,
               !.tzHour = IF hours < 0 THEN 0 - hours ELSE hours,
               !.tzMinute = 0]
\* TimeComposer::IsExpecting
TimeIsExpecting(st, n) ==
    \/ Len(st.time) = 1 /\ n \in 0..59
    \/ Len(st.time) = 2 /\ n \in 0..59
    \/ Len(st.time) = 3 /\ n \in 0..999
\* TimeComposer::Add, which leaves a full composer as it is, and AddFinal.
TimeAdd(time, n) == IF Len(time) < 4 THEN Append(time, n) ELSE time
TimeAddFinal(time, n) ==
    LET added == TimeAdd(time, n)
    IN  IF Len(time) = 4 THEN time
        ELSE [i \in 1..4 |-> IF i <= Len(added) THEN added[i] ELSE 0]

\* What ParseES5DateTime returns. status "end": the string is of the ISO
\* form; "invalid": it is no date; "legacy": the other parser goes on from
\* token `next` with what has been read so far.
ES5Invalid == [status |-> "invalid", st |-> NoDate, next |-> 0]
ES5Legacy(st, i) == [status |-> "legacy", st |-> st, next |-> i]
ES5Done(st) ==
    [status |-> "end", next |-> 0,
     st |-> [(IF st.tzHour = kNone /\ st.time = <<>> THEN TzSet(st, 0) ELSE st)
                EXCEPT !.iso = TRUE]]
\* ParseES5DateTime from token p on, at the part of the ISO form
\* [+-YY]YYYY[-MM[-DD]][THH:mm[:ss[.sss]][Z|+-hh:mm]] that `part` names; st
\* is what has been read so far, hourIs24 whether the hour read is 24.
RECURSIVE ParseES5From(_, _, _, _, _)
ParseES5From(tokens, part, st, p, hourIs24) ==
    LET token == TokenAt(tokens, p)
        t1 == TokenAt(tokens, p + 1)
        t2 == TokenAt(tokens, p + 2)
        t3 == TokenAt(tokens, p + 3)
    IN  CASE part = "year" ->
               IF IsAsciiSign(token)
                 THEN (IF ~IsFixedNumber(t1, 6) THEN ES5Legacy(st, p)
                       ELSE IF token.c = "-" /\ t1.n = 0 THEN ES5Legacy(st, p + 2)
                       ELSE ParseES5From(tokens, "month",
                              [st EXCEPT !.day = <<(IF token.c = "-" THEN -1 ELSE 1) * t1.n>>],
                              p + 2, hourIs24))
               ELSE IF IsFixedNumber(token, 4)
                 THEN ParseES5From(tokens, "month", [st EXCEPT !.day = <<token.n>>], p + 1,
                                   hourIs24)
               ELSE ES5Legacy(st, p)
          [] part \in {"month", "day"} ->
               IF ~IsSymbol(token, "-") THEN ParseES5From(tokens, "time", st, p, hourIs24)
               ELSE IF ~(/\ IsFixedNumber(t1, 2)
                         /\ t1.n \in 1..(IF part = "month" THEN 12 ELSE 31))
                 THEN ES5Legacy(st, p + 1)
               ELSE ParseES5From(tokens, IF part = "month" THEN "day" ELSE "time",
                                 [st EXCEPT !.day = Append(@, t1.n)], p + 2, hourIs24)
          [] part = "time" ->
               IF ~(token.k = "keyword" /\ token.c = "TIME_SEPARATOR")
                 THEN (IF token.k # "end" THEN ES5Legacy(st, p) ELSE ES5Done(st))
               ELSE IF ~(IsFixedNumber(t1, 2) /\ t1.n \in 0..24) THEN ES5Invalid
               ELSE IF ~IsSymbol(t2, ":") THEN ES5Invalid
               ELSE IF ~(/\ IsFixedNumber(t3, 2)
                         /\ t3.n \in 0..59
                         /\ ~(t1.n = 24 /\ t3.n > 0)) THEN ES5Invalid
               ELSE ParseES5From(tokens, "seconds", [st EXCEPT !.time = <<t1.n, t3.n>>],
                                 p + 4, t1.n = 24)
          [] part = "seconds" ->
               IF ~IsSymbol(token, ":") THEN ParseES5From(tokens, "zone", st, p, hourIs24)
               ELSE IF ~(/\ IsFixedNumber(t1, 2)
                         /\ t1.n \in 0..59
                         /\ ~(hourIs24 /\ t1.n > 0)) THEN ES5Invalid
               ELSE IF ~IsSymbol(t2, ".")
                 THEN ParseES5From(tokens, "zone", [st EXCEPT !.time = Append(@, t1.n)],
                                   p + 2, hourIs24)
               ELSE IF t3.k # "number" \/ (hourIs24 /\ t3.n > 0) THEN ES5Invalid
               ELSE ParseES5From(tokens, "zone",
                      [st EXCEPT !.time = Append(Append(@, t1.n), ReadMilliseconds(t3))],
                      p + 4, hourIs24)
          [] part = "zone" ->
               IF IsKeywordZ(token)
                 THEN ParseES5From(tokens, "end", TzSet(st, 0), p + 1, hourIs24)
               ELSE IF ~IsAsciiSign(token)
                 THEN ParseES5From(tokens, "end", st, p, hourIs24)
               ELSE IF IsFixedNumber(t1, 4)
                 THEN (IF (t1.n \div 100) \notin 0..23 \/ (t1.n % 100) \notin 0..59
                         THEN ES5Invalid
                       ELSE ParseES5From(tokens, "end",
                              [st EXCEPT !.tzSign = IF token.c = "+" THEN 1 ELSE -1,
                                         !.tzHour = t1.n \div 100, !.tzMinute = t1.n % 100],
                              p + 2, hourIs24))
               ELSE IF ~(IsFixedNumber(t1, 2) /\ t1.n \in 0..23) THEN ES5Invalid
               ELSE IF ~IsSymbol(t2, ":") THEN ES5Invalid
               ELSE IF ~(IsFixedNumber(t3, 2) /\ t3.n \in 0..59) THEN ES5Invalid
               ELSE ParseES5From(tokens, "end",
                      [st EXCEPT !.tzSign = IF token.c = "+" THEN 1 ELSE -1,
                                 !.tzHour = t1.n, !.tzMinute = t3.n],
                      p + 4, hourIs24)
          [] OTHER -> IF token.k # "end" THEN ES5Invalid ELSE ES5Done(st)
\* ParseES5DateTime
ParseES5DateTime(tokens) == ParseES5From(tokens, "year", NoDate, 1, FALSE)

\* The parser of the other date formats, from token i on: st is what has
\* been collected, hasReadNumber whether a number has been read.
RECURSIVE ParseLegacy(_, _, _, _)
ParseLegacy(tokens, i, st, hasReadNumber) ==
    LET token == TokenAt(tokens, i)
        n == token.n
        Fail == [st EXCEPT !.failed = TRUE]
        \* the token after the number, a "." after the number having been skipped
        j == IF IsSymbol(TokenAt(tokens, i + 1), ".") THEN i + 2 ELSE i + 1
        \* the number of a time zone offset, when one follows the sign
        m == IF TokenAt(tokens, i + 1).k = "number" THEN TokenAt(tokens, i + 1).n ELSE 0
        length == IF TokenAt(tokens, i + 1).k = "number" THEN TokenAt(tokens, i + 1).len ELSE 0
        k == IF TokenAt(tokens, i + 1).k = "number" THEN i + 2 ELSE i + 1
    IN  IF token.k = "end" THEN st
        ELSE IF token.k = "number"
          THEN (IF IsSymbol(TokenAt(tokens, i + 1), ":")
                  THEN (IF IsSymbol(TokenAt(tokens, i + 2), ":")
                          THEN (IF st.time # <<>> THEN Fail
                                ELSE ParseLegacy(tokens, i + 3, [st EXCEPT !.time = <<n, 0>>], TRUE))
                        ELSE IF Len(st.time) = 4 THEN Fail
                        ELSE ParseLegacy(tokens, IF IsSymbol(TokenAt(tokens, i + 2), ".") THEN i + 3 ELSE i + 2,
                                [st EXCEPT !.time = Append(@, n)], TRUE))
                ELSE IF IsSymbol(TokenAt(tokens, i + 1), ".") /\ TimeIsExpecting(st, n)
                  THEN (IF TokenAt(tokens, j).k # "number" THEN Fail
                        ELSE ParseLegacy(tokens, j + 1,
                                [st EXCEPT !.time = TimeAddFinal(TimeAdd(@, n), ReadMilliseconds(TokenAt(tokens, j)))],
                                TRUE))
                ELSE IF st.tzHour # kNone /\ st.tzMinute = kNone /\ n \in 0..59
                  THEN ParseLegacy(tokens, j, [st EXCEPT !.tzMinute = n], TRUE)
                ELSE IF TimeIsExpecting(st, n)
                  THEN (IF ~(\/ TokenAt(tokens, j).k \in {"end", "whitespace"}
                             \/ IsKeywordZ(TokenAt(tokens, j))
                             \/ IsAsciiSign(TokenAt(tokens, j))) THEN Fail
                        ELSE ParseLegacy(tokens, j, [st EXCEPT !.time = TimeAddFinal(@, n)], TRUE))
                ELSE IF Len(st.day) = 3 THEN Fail
                ELSE ParseLegacy(tokens, IF IsSymbol(TokenAt(tokens, j), "-") THEN j + 1 ELSE j,
                        [st EXCEPT !.day = Append(@, n)], TRUE))
        ELSE IF token.k = "keyword"
          THEN (IF token.c = "AM_PM" /\ st.time # <<>>
                  THEN ParseLegacy(tokens, i + 1, [st EXCEPT !.hourOffset = n], hasReadNumber)
                ELSE IF token.c = "MONTH_NAME"
                  THEN ParseLegacy(tokens, IF IsSymbol(TokenAt(tokens, i + 1), "-") THEN i + 2 ELSE i + 1,
                          [st EXCEPT !.named = n], hasReadNumber)
                ELSE IF token.c = "TIME_ZONE_NAME" /\ hasReadNumber
                  THEN ParseLegacy(tokens, i + 1, TzSet(st, n), hasReadNumber)
                ELSE IF hasReadNumber THEN Fail
                ELSE IF TokenAt(tokens, i + 1).k = "number" THEN Fail
                ELSE ParseLegacy(tokens, i + 1, st, hasReadNumber))
        ELSE IF IsAsciiSign(token) /\ ((st.tzHour = 0 /\ st.tzMinute = 0) \/ st.time # <<>>)
          THEN LET sign == IF token.c = "+" THEN 1 ELSE -1
               IN  IF IsSymbol(TokenAt(tokens, k), ":")
                     THEN ParseLegacy(tokens, k, [st EXCEPT !.tzSign = sign, !.tzHour = m, !.tzMinute = kNone], TRUE)
                   ELSE IF length \in {1, 2}
                     THEN ParseLegacy(tokens, k, [st EXCEPT !.tzSign = sign, !.tzHour = m, !.tzMinute = 0], TRUE)
                   ELSE IF length \in {3, 4}
                     THEN ParseLegacy(tokens, k, [st EXCEPT !.tzSign = sign, !.tzHour = m \div 100,
                                           !.tzMinute = m % 100], TRUE)
                   ELSE Fail
        ELSE IF (IsAsciiSign(token) \/ IsSymbol(token, ")")) /\ hasReadNumber THEN Fail
        ELSE ParseLegacy(tokens, i + 1, st, hasReadNumber)

\* DayComposer::Write: the year, month and day of the numbers collected.
\* Missing numbers are 1. Without a month name the order is year, month, day
\* for the ISO form and when the first number is no day of a month, and
\* month, day, year otherwise; with one, the other numbers are year and day
\* when the first is no day of a month, and day and year otherwise. Outside
\* the ISO form a year below 50 is in the 2000s, one below 100 in the 1900s.
DayWrite(st) ==
    LET comp == [i \in 1..3 |-> IF i <= Len(st.day) THEN st.day[i] ELSE 1]
        isDay == comp[1] \in 1..31
        ymd == st.iso \/ ~isDay
        year == IF st.named = kNone THEN (IF ymd THEN comp[1] ELSE comp[3])
                ELSE (IF ~isDay THEN comp[1] ELSE comp[2])
        month == IF st.named # kNone THEN st.named
                 ELSE (IF ymd THEN comp[2] ELSE comp[1])
        day == IF st.named = kNone THEN (IF ymd THEN comp[3] ELSE comp[2])
               ELSE (IF ~isDay THEN comp[2] ELSE comp[1])
        full == IF st.iso THEN year
                ELSE IF year \in 0..49 THEN year + 2000
                ELSE IF year \in 50..99 THEN year + 1900
                ELSE year
    IN  [ok |-> st.day # <<>> /\ month \in 1..12 /\ day \in 1..31,
         year |-> full, month |-> month, day |-> day]
\* TimeComposer::Write: the milliseconds of the time within its day. Missing
\* numbers are 0; with am or pm the hour is one of 0..12, taken modulo 12,
\* plus 12 for pm; 24:00:00.000 is a time.
TimeWrite(st) ==
    LET comp == [i \in 1..4 |-> IF i <= Len(st.time) THEN st.time[i] ELSE 0]
        hour12 == st.hourOffset = kNone \/ comp[1] \in 0..12
        hour == IF st.hourOffset = kNone \/ ~hour12 THEN comp[1]
                ELSE (comp[1] % 12) + st.hourOffset
        inRange == hour \in 0..23 /\ comp[2] \in 0..59 /\ comp[3] \in 0..59 /\ comp[4] \in 0..999
        midnight == hour = 24 /\ comp[2] = 0 /\ comp[3] = 0 /\ comp[4] = 0
        ok == hour12 /\ (inRange \/ midnight)
    IN  [ok |-> ok,
         ms |-> IF ok THEN hour * 3600000 + comp[2] * 60000 + comp[3] * 1000 + comp[4] ELSE 0]
\* TimeZoneComposer::Write: the seconds from UTC; hours and minutes not given
\* are 0. The seconds are computed in 32 bits (here in two halves of 16 bits)
\* and have to be at most 2^31 - 1. Without a sign the time is local.
TimeZoneWrite(st) ==
    LET hour == IF st.tzHour = kNone THEN 0 ELSE st.tzHour
        minute == IF st.tzMinute = kNone THEN 0 ELSE st.tzMinute
        low == 3600 * (hour % 65536) + 60 * minute
        high == (3600 * (hour \div 65536) + (low \div 65536)) % 65536
        seconds == high * 65536 + (low % 65536)
    IN  IF st.tzSign = kNone THEN [ok |-> TRUE, seconds |-> 0]
        ELSE IF high >= 32768 THEN [ok |-> FALSE, seconds |-> 0]
        ELSE [ok |-> TRUE, seconds |-> st.tzSign * seconds]
\* The time value of what the parser has collected: the day (MakeDay, for a
\* year within a million years of 0), the time within it and the offset from
\* UTC, which TimeClip bounds.
MakeDate(day, time, tz) ==
    IF ~(day.ok /\ time.ok /\ tz.ok) THEN InvalidTime
    ELSE IF day.year \notin -1000000..1000000 THEN InvalidTime
    ELSE TimeClip(DaysFromCivil(day.year, day.month, day.day) - (tz.seconds \div 86400),
                  time.ms - 1000 * (tz.seconds % 86400))
\* What the two parsers collect from the tokens; `iso` is what the parser of
\* the ISO form has returned.
ParseTokens(tokens, iso) ==
    IF iso.status = "invalid" THEN [NoDate EXCEPT !.failed = TRUE]
    ELSE IF iso.status = "legacy"
      THEN ParseLegacy(tokens, iso.next, iso.st, iso.st.day # <<>>)
    ELSE iso.st
\* The time value of the date the parsers have collected, if any.
WriteDate(st) ==
    IF st.failed THEN InvalidTime ELSE MakeDate(DayWrite(st), TimeWrite(st), TimeZoneWrite(st))
\* DateParser::Parse on the tokens of a string.
ParseDate(tokens) == WriteDate(ParseTokens(tokens, ParseES5DateTime(tokens)))
\* `new Date(s).getTime()` for a string: Date.parse.
DateParse(s) == ParseDate(DateTokens(s))

\* `typeof v`
TypeOf(v) ==
    IF v.t \in {"null", "array", "object"} THEN "object" ELSE v.t
\* ToBoolean
Truthy(v) ==
    CASE v.t = "undefined" -> FALSE
      [] v.t = "null" -> FALSE
      [] v.t = "string" -> v.s # ""
      [] v.t = "number" -> ~v.nan /\ v.n # 0
      [] v.t = "boolean" -> v.b
      [] OTHER -> TRUE
\* `v[k]` for a property name k, on a value that is not null or undefined.
Get(v, k) ==
    IF v.t = "object" /\ k \in DOMAIN v.props THEN v.props[k] ELSE Undefined
\* `k in v` for an object
HasProp(v, k) == v.t = "object" /\ k \in DOMAIN v.props
\* `Object.keys(v).length`, for a value that is not null or undefined.
KeysLength(v) ==
    CASE v.t = "object" -> Cardinality(DOMAIN v.props)
      [] v.t = "array" -> Len(v.items)
      [] v.t = "string" -> StrLen(v.s)
      [] OTHER -> 0
\* `String(v)`, which is also what Number and Date make of an array or an
\* object before they read it: an array is its elements joined by commas,
\* with null and undefined elements written as nothing; a plain object is
\* "[object Object]".
RECURSIVE ToStr(_)
ToStr(v) ==
    CASE v.t = "undefined" -> "undefined"
      [] v.t = "null" -> "null"
      [] v.t = "string" -> v.s
      [] v.t = "number" -> NumToString(v)
      [] v.t = "boolean" -> (IF v.b THEN "true" ELSE "false")
      [] v.t = "array" ->
           (IF v.items = <<>> THEN ""
            ELSE (IF Head(v.items) \in {Undefined, Null} THEN ""
                  ELSE ToStr(Head(v.items)))
                   \o (IF Len(v.items) = 1 THEN ""
                       ELSE "," \o ToStr(Arr(Tail(v.items)))))
      [] OTHER -> "[object Object]"
\* `Number(v)`
ToNumber(v) ==
    CASE v.t = "undefined" -> NaN
      [] v.t = "null" -> Num(0)
      [] v.t = "number" -> v
      [] v.t = "boolean" -> Num(IF v.b THEN 1 ELSE 0)
      [] OTHER -> StringToNumber(ToStr(v))
\* `new Date(v).getTime()`: a string is parsed, and so is what an array or
\* an object is as a string; any other value is a time value in
\* milliseconds after ToNumber.
DateTime(v) ==
    IF v.t \in {"string", "array", "object"} THEN DateParse(ToStr(v))
    ELSE IF ToNumber(v).nan THEN InvalidTime
    ELSE TimeValue(ToNumber(v).n \div 86400000, ToNumber(v).n % 86400000)
\* `date.toISOString()` of a valid date, written by its time value.
ToISOString(time) == [t |-> "string", s |-> "iso", days |-> time.days, ms |-> time.ms]

\* The field types of a cabinet schema.
FieldTypes ==
    {"Text/Number with Special Symbols", "Text Only", "Number Only", "Currency",
     "Date", "Time", "Time and Date", "Yes/No", "Tags/Labels", "Attachment"}
\* ExtendedCustomField; characterLimit is <<>> when the field has none.
Field(id, type, isMandatory, characterLimit) ==
    [id |-> id, type |-> type, isMandatory |-> isMandatory,
     characterLimit |-> characterLimit]

\* What a validation returns or throws.
Returns(v) == [err |-> FALSE, value |-> v]
Throws400 == [err |-> TRUE, value |-> Undefined]

\* `field.characterLimit && s.length > field.characterLimit`
ExceedsLimit(field, s) ==
    /\ field.characterLimit # <<>>
    /\ field.characterLimit[1] # 0
    /\ StrLen(s) > field.characterLimit[1]

\* `typeof value === 'object' && value !== null
\*    ? value.value !== undefined ? value.value : value : value`
ActualValue(value) ==
    IF TypeOf(value) = "object" /\ value # Null
      THEN (IF Get(value, "value") # Undefined THEN Get(value, "value") ELSE value)
      ELSE value

\* validateFieldValue(value, field)
ValidateFieldValue(value, field) ==
    IF value \in {Undefined, Null} THEN Returns(Null)
    ELSE
    LET actualValue == ActualValue(value)
    IN  CASE field.type = "Text/Number with Special Symbols" ->
               IF actualValue \in {Null, Undefined, Str("")} THEN Returns(Null)
               ELSE LET stringValue == IF actualValue.t = "number"
                                         THEN Str(NumToString(actualValue))
                                         ELSE actualValue
                    IN  IF stringValue.t # "string" THEN Throws400
                        ELSE IF ExceedsLimit(field, stringValue.s) THEN Throws400
                        ELSE Returns(stringValue)
          [] field.type = "Text Only" ->
               LET textValue == IF HasProp(actualValue, "value")
                                  THEN Get(actualValue, "value") ELSE actualValue
               IN  IF textValue.t # "string" THEN Throws400
                   ELSE IF ExceedsLimit(field, textValue.s) THEN Throws400
                   ELSE Returns(textValue)
          [] field.type = "Number Only" ->
               IF actualValue \in {Null, Undefined, Str("")} THEN Returns(Null)
               ELSE IF actualValue.t = "number"
                 THEN (IF actualValue.nan THEN Throws400 ELSE Returns(actualValue))
               ELSE IF actualValue.t = "string"
                 THEN (IF ParseFloatTrim(actualValue.s).nan THEN Throws400
                       ELSE Returns(ParseFloatTrim(actualValue.s)))
               ELSE Throws400
          [] field.type = "Currency" ->
               IF ToNumber(actualValue).nan THEN Throws400
               ELSE Returns(ToNumber(actualValue))
          [] field.type \in {"Date", "Time", "Time and Date"} ->
               IF actualValue.t = "string" /\ ~DateTime(actualValue).nan
                 THEN Returns(actualValue)
               ELSE IF DateTime(actualValue).nan THEN Throws400
               ELSE Returns(ToISOString(DateTime(actualValue)))
          [] field.type = "Yes/No" ->
               IF actualValue.t # "boolean" THEN Throws400 ELSE Returns(actualValue)
          [] field.type = "Tags/Labels" ->
               IF actualValue.t # "array" THEN Throws400 ELSE Returns(actualValue)
          [] field.type = "Attachment" ->
               IF ~Truthy(actualValue) \/ TypeOf(actualValue) # "object" THEN Throws400
               ELSE IF ~Truthy(Get(actualValue, "fileName"))
                       \/ ~Truthy(Get(actualValue, "filePath")) THEN Throws400
               ELSE Returns(actualValue)
          [] OTHER -> Returns(actualValue)

\* `submittedFields[field.id]`: undefined when the submission has no such key.
Submitted(submittedFields, id) ==
    IF id \in DOMAIN submittedFields THEN submittedFields[id] ELSE Undefined

\* hasValidValue of a mandatory Attachment field
HasValidValue(submittedField) ==
    /\ Truthy(submittedField)
    /\ \/ /\ Truthy(Get(submittedField, "value"))
          /\ KeysLength(Get(submittedField, "value")) > 0
       \/ /\ TypeOf(submittedField) = "object"
          /\ \/ Truthy(Get(submittedField, "filePath"))
             \/ Truthy(Get(submittedField, "fileName"))

\* hasValue of a mandatory field of another type
HasValue(submittedField) == submittedField \notin {Undefined, Null, Str("")}

\* The mandatory check throws for this field.
MandatoryMissing(field, submittedField) ==
    /\ field.isMandatory
    /\ IF field.type = "Attachment" THEN ~HasValidValue(submittedField)
       ELSE ~HasValue(submittedField)

\* The entry stored for an Attachment field: the submitted value as it is,
\* when it is truthy. `entry` is <<>> when no entry is stored.
AttachmentEntry(field, submittedField) ==
    IF Truthy(submittedField)
      THEN [err |-> FALSE,
            entry |-> <<[fieldId |-> field.id, type |-> field.type,
                         value |-> submittedField]>>]
      ELSE [err |-> FALSE, entry |-> <<>>]

\* Mutant of FieldEntry: a null value is stored as no entry.
FieldEntry_NullOmitted(field, submittedField) ==
    IF submittedField \in {Undefined, Null} THEN [err |-> FALSE, entry |-> <<>>]
    ELSE IF ValidateFieldValue(submittedField, field).err
           THEN [err |-> TRUE, entry |-> <<>>]
           ELSE [err |-> FALSE,
                 entry |-> <<[fieldId |-> field.id, type |-> field.type,
                              value |-> ValidateFieldValue(submittedField, field).value]>>]

\* The entry stored for a field of another type: the validated value, when
\* the submitted value is not undefined.
FieldEntry(field, submittedField) ==
    IF submittedField = Undefined THEN [err |-> FALSE, entry |-> <<>>]
    ELSE IF ValidateFieldValue(submittedField, field).err
           THEN [err |-> TRUE, entry |-> <<>>]
           ELSE [err |-> FALSE,
                 entry |-> <<[fieldId |-> field.id, type |-> field.type,
                              value |-> ValidateFieldValue(submittedField, field).value]>>]

\* One turn of the loop over cabinetFields.
ProcessField(field, submittedField) ==
    IF MandatoryMissing(field, submittedField) THEN [err |-> TRUE, entry |-> <<>>]
    ELSE IF field.type = "Attachment" THEN AttachmentEntry(field, submittedField)
    ELSE FieldEntry(field, submittedField)

\* validateCustomFields(submittedFields, cabinetFields): the fields are
\* processed in schema order and the first error is thrown. The result is
\* [err, fields], fields being validatedFields as a function from field ids
\* to entries.
RECURSIVE ValidateFrom(_, _, _, _)
ValidateFrom(submittedFields, cabinetFields, i, validatedFields) ==
    IF i > Len(cabinetFields) THEN [err |-> FALSE, fields |-> validatedFields]
    ELSE LET field == cabinetFields[i]
             step == ProcessField(field, Submitted(submittedFields, field.id))
         IN  IF step.err THEN [err |-> TRUE, fields |-> <<>>]
             ELSE ValidateFrom(submittedFields, cabinetFields, i + 1,
                    IF step.entry = <<>> THEN validatedFields
                    ELSE [k \in DOMAIN validatedFields \cup {field.id} |->
                            IF k = field.id THEN step.entry[1] ELSE validatedFields[k]])

ValidateCustomFields(submittedFields, cabinetFields) ==
    ValidateFrom(submittedFields, cabinetFields, 1, <<>>)

(***************************************************************************)
(* processPdfFile and extractPdfContent.                                   *)
(***************************************************************************)
\* Express.Multer.File, by the two properties processPdfFile reads.
MulterFile(originalname, size) == [originalname |-> originalname, size |-> size]
\* The awaits and computations of extractPdfContent that can throw; all of
\* them are inside its try block.
ExtractSteps == {"writeFile", "extract", "process", "analyze"}
\* extractPdfContent(file): `content` is what extraction and analysis yield
\* when nothing fails; any failure is rethrown as AppError 500.
ExtractPdfContent(file, content, fail) ==
    IF fail \in ExtractSteps THEN [err |-> TRUE, code |-> 500, value |-> <<>>]
    ELSE [err |-> FALSE, code |-> 200, value |-> content]
\* Mutant of MathRound: the quotient is rounded down.
MathRound_Floor(n, d) == n \div d
\* `Math.round(n / d)` for a non-negative integer n and d = 1024: the nearest
\* integer, a half rounded up.
MathRound(n, d) == (2 * n + d) \div (2 * d)
\* The result processPdfFile returns when extraction has thrown.
ExtractionFailed(file) ==
    [extractedText |-> "PDF text extraction failed",
     extractedFields |->
       << [name |-> "Document Name", value |-> file.originalname],
          [name |-> "File Size", value |-> ToString(MathRound(file.size, 1024)) \o " KB"] >>,
     pageCount |-> 1]
\* processPdfFile(file)
ProcessPdfFile(file, content, fail) ==
    LET extracted == ExtractPdfContent(file, content, fail)
    IN  IF extracted.err
          THEN [err |-> FALSE, code |-> 200, value |-> ExtractionFailed(file)]
          ELSE extracted

(***************************************************************************)
(* Sequential use of the service: the arguments the calls are made with.   *)
(***************************************************************************)
RecordIdArgs == RecordIds \cup {MissingRecordId}
VersionIdArgs == 0..MaxVersionRows
CommentArgs == {Undef, "", "text"}
\* createRecord data: one object per check it can fail, and accepted ones.
GoodCreate == [title |-> <<" ", "a", " ">>, cabinetId |-> "c1", creatorId |-> "u1",
               status |-> "draft", fieldsOk |-> TRUE, fileInfo |-> NoFile]
BadCreates ==
    { [GoodCreate EXCEPT !.title = <<>>],
      [GoodCreate EXCEPT !.title = <<" ", " ">>],
      [GoodCreate EXCEPT !.cabinetId = MissingCabinetId],
      [GoodCreate EXCEPT !.creatorId = MissingUserId],
      [GoodCreate EXCEPT !.fieldsOk = FALSE] }
\* Partial<Record> objects that set the version or the file descriptor, and
\* those that set the status.
VersionPatches == { EmptyPatch, [EmptyPatch EXCEPT !.version = <<1>>],
                    [EmptyPatch EXCEPT !.file = <<PatchedFile>>] }
StatusPatches == {EmptyPatch} \cup { [EmptyPatch EXCEPT !.status = <<s>>] : s \in Statuses }
\* The Partial<Record> passed to approveRecord and rejectRecord.
ReviewPatches == { EmptyPatch, [EmptyPatch EXCEPT !.status = <<"draft">>] }
\* deleteVersion(recordId, versionId, userId) calls by the given users on
\* the records, and one call on a record that does not exist.
DeleteVersionArgs(callers) ==
    (RecordIds \X VersionIdArgs \X callers) \cup { <<MissingRecordId, 1, "u1">> }
\* updateRecord(id, data, comments) calls: every status patch without a
\* comment, a comment without a patch, and a record that does not exist.
UpdateStatusArgs ==
    (RecordIds \X StatusPatches \X {Undef})
      \cup (RecordIds \X {EmptyPatch} \X {"", "text"})
      \cup { <<MissingRecordId, EmptyPatch, Undef>> }
\* The (text, data) pairs passed to approveRecord (its note) and to
\* rejectRecord (its comments).
ReviewPairs ==
    { <<Undef, EmptyPatch>>, <<"", EmptyPatch>>, <<"text", EmptyPatch>>,
      <<Undef, [EmptyPatch EXCEPT !.status = <<"draft">>]>> }

(***************************************************************************)
(* Spec: records and their file versions. Records are created, given new   *)
(* versions, lose versions and are updated, one call after the other.      *)
(***************************************************************************)
\* The callers of deleteVersion: the creator of the records, the owner of
\* their cabinet, and a user who is neither.
VersionCallers == {"u1", "u2", "u3"}
VersionCreates ==
    BadCreates \cup
      { GoodCreate, [GoodCreate EXCEPT !.status = "pending", !.fileInfo = AttachedFile] }

Next ==
    \/ \E d \in VersionCreates :
         CreateRecord(d.title, d.cabinetId, d.creatorId, d.status, d.fieldsOk, d.fileInfo)
    \/ \E d \in VersionCreates :
         CreateRecordWithFiles(d.title, d.cabinetId, d.creatorId, d.status, d.fieldsOk,
                               d.fileInfo)
    \/ \E r \in RecordIdArgs : CreateNewVersion(r, Upload(nextVersionId), "u1")
    \/ \E a \in DeleteVersionArgs(VersionCallers) : DeleteVersion(a[1], a[2], a[3])
    \/ \E r \in RecordIds, d \in VersionPatches : UpdateRecord(r, d, Undef, "u1")

Spec == Init /\ [][Next]_vars

(***************************************************************************)
(* SpecReview: the review workflow. Records are created, updated, approved *)
(* and rejected, one call after the other.                                 *)
(***************************************************************************)
ReviewCreates ==
    BadCreates \cup
      { GoodCreate, [GoodCreate EXCEPT !.status = "pending", !.cabinetId = "c2"] }

\* rejectRecord(recordId, userId, comments, data) calls: by an approver of
\* cabinet c1 with every (comments, data) pair, by every other user with a
\* comment, and one call on a record that does not exist.
RejectArgs ==
    (RecordIds \X {"u3"} \X ReviewPairs)
      \cup (RecordIds \X (Users \ {"u3"}) \X { <<"text", EmptyPatch>> })
      \cup { <<MissingRecordId, "u3", <<Undef, EmptyPatch>>>> }

NextReview ==
    \/ \E d \in ReviewCreates :
         CreateRecord(d.title, d.cabinetId, d.creatorId, d.status, d.fieldsOk, d.fileInfo)
    \/ \E a \in UpdateStatusArgs : UpdateRecord(a[1], a[2], a[3], "u1")
    \/ \E r \in RecordIds, a \in ReviewPairs : ApproveRecord(r, "u3", a[1], a[2])
    \/ ApproveRecord(MissingRecordId, "u3", Undef, EmptyPatch)
    \/ \E a \in RejectArgs : RejectRecord(a[1], a[2], a[3][1], a[3][2])

SpecReview == Init /\ [][NextReview]_vars

(***************************************************************************)
(* SpecLifecycle: the six operations that write a Record, one call after   *)
(* the other; updateRecord is given data objects that carry a status, a    *)
(* version or a file descriptor.                                           *)
(***************************************************************************)
\* The Partial<Record> objects passed to updateRecord.
LifecyclePatches ==
    { [EmptyPatch EXCEPT !.status = <<"pending">>] } \cup (VersionPatches \ {EmptyPatch})

NextLifecycle ==
    \/ \E d \in { [GoodCreate EXCEPT !.status = "pending", !.fileInfo = AttachedFile] } :
         CreateRecord(d.title, d.cabinetId, d.creatorId, d.status, d.fieldsOk, d.fileInfo)
    \/ \E r \in RecordIdArgs : CreateNewVersion(r, Upload(nextVersionId), "u1")
    \/ \E a \in DeleteVersionArgs({"u1", "u3"}) : DeleteVersion(a[1], a[2], a[3])
    \/ \E r \in RecordIds, d \in LifecyclePatches : UpdateRecord(r, d, Undef, "u1")
    \/ \E r \in RecordIds : ApproveRecord(r, "u3", Undef, EmptyPatch)
    \/ \E r \in RecordIds : RejectRecord(r, "u3", Undef, EmptyPatch)

SpecLifecycle == Init /\ [][NextLifecycle]_vars

(***************************************************************************)
(* SpecDelete: records in both cabinets get versions, lose versions and    *)
(* are deleted, by every user, one call after the other; deleteRecord      *)
(* meets the failures of its transaction.                                  *)
(***************************************************************************)
DeleteCreates == { GoodCreate, [GoodCreate EXCEPT !.cabinetId = "c2"] }

\* deleteRecord(id, userId) calls: by the creator under every failure, by
\* every user with no failure and with a failing record.destroy, and one
\* call on a record that does not exist.
DeleteRecordArgs ==
    (FaultsAt(DeleteRecordSteps) \X RecordIds \X {"u1"})
      \cup ({NoFault, [fail |-> "destroyRecord", rollbackFails |-> FALSE]}
              \X RecordIds \X Users)
      \cup { <<NoFault, MissingRecordId, "u1">> }

NextDelete ==
    \/ \E d \in DeleteCreates :
         CreateRecord(d.title, d.cabinetId, d.creatorId, d.status, d.fieldsOk, d.fileInfo)
    \/ \E r \in RecordIds : CreateNewVersion(r, Upload(nextVersionId), "u1")
    \/ \E a \in DeleteVersionArgs({"u1"}) \cup (RecordIds \X {0, 1} \X Users) :
         DeleteVersion(a[1], a[2], a[3])
    \/ \E a \in DeleteRecordArgs : DeleteRecord(a[1], a[2], a[3])

SpecDelete == Init /\ [][NextDelete]_vars

(***************************************************************************)
(* SpecCreate: createRecord with every title up to MaxTitleLen characters, *)
(* with and without a pdfFile, under the failures of its transaction.      *)
(***************************************************************************)
TitleChars == {" ", "\t", "a"}
TitleArgs ==
    {NoTitle} \cup UNION { [1..n -> TitleChars] : n \in 0..MaxTitleLen }

NextCreate ==
    \/ \E t \in TitleArgs :
         CreateRecordWith("createRecord", NoFault, NoPdf, FALSE, t, GoodCreate.cabinetId,
                          GoodCreate.creatorId, GoodCreate.status, TRUE, NoFile)
    \/ \E pdf \in PdfArgs, f \in FaultsAt(CreateRecordSteps("createRecord", FALSE)) :
         CreateRecordWith("createRecord", f, pdf, FALSE, GoodCreate.title,
                          GoodCreate.cabinetId, GoodCreate.creatorId, GoodCreate.status,
                          TRUE, NoFile)
    \/ \E d \in BadCreates :
         CreateRecord(d.title, d.cabinetId, d.creatorId, d.status, d.fieldsOk, d.fileInfo)

SpecCreate == Init /\ [][NextCreate]_vars

(***************************************************************************)
(* SpecModify: records are created, modified and deleted, one call after   *)
(* the other; modifyRecord gets every title and pdfFile outcome and meets  *)
(* the failures of its steps.                                              *)
(***************************************************************************)
\* (title, pdfFile outcome) of the data passed to modifyRecord.
ModifyInputs ==
    { <<<<"a", " ">>, NoPdf>>, <<<<" ", " ">>, "ok">>, <<<<"a", " ">>, "writeFails">>,
      <<<<"a", " ">>, "extractFails">> }
\* (cabinetId, creatorId, fieldsOk) of the data passed to modifyRecord: one
\* triple that passes the checks and one per check that fails.
ModifyChecks ==
    { <<"c2", "u2", TRUE>>, <<MissingCabinetId, "u2", TRUE>>,
      <<"c2", MissingUserId, TRUE>>, <<"c2", "u2", FALSE>> }

NextModify ==
    \/ \E d \in {GoodCreate} :
         CreateRecord(d.title, d.cabinetId, d.creatorId, d.status, d.fieldsOk, d.fileInfo)
    \/ CreateNewVersion("r1", Upload(nextVersionId), "u1")
    \/ \E r \in RecordIds, a \in ModifyInputs :
         ModifyRecord(NoFault, a[2], r, a[1], "c2", "u2", "approved", TRUE)
    \/ \E r \in RecordIds, t \in {NoTitle, <<"a", " ">>} :
         \E f \in FaultsAt(ModifyRecordSteps(t)) :
           ModifyRecord(f, NoPdf, r, t, "c2", "u2", "approved", TRUE)
    \/ \E r \in RecordIdArgs, a \in ModifyChecks :
         ModifyRecord(NoFault, NoPdf, r, <<"a">>, a[1], a[2], "approved", a[3])
    \/ \E r \in RecordIds : DeleteRecord(NoFault, r, "u1")

SpecModify == Init /\ [][NextModify]_vars

(***************************************************************************)
(* SpecTx: the seven operations that run in a transaction, one call after  *)
(* the other, each under the failures of its steps and of its rollback.    *)
(***************************************************************************)
TxCreate == [GoodCreate EXCEPT !.status = "pending"]
TxTitles == {TxCreate.title, <<>>}
\* The record's creator and a member_read of its cabinet.
TxCallers == {"u1", "u5"}
\* The users who approve and reject: an approver of the cabinet and a member_read of it.
TxReviewers == {"u3", "u5"}
\* No failure, a failure of the commit, the failures after the commit; each
\* with a rollback that succeeds and one that fails.
TxFaults(steps) ==
    { f \in FaultsAt(steps) : f.fail \in {"none", "commit"} \cup AfterCommit(steps) }

NextTx ==
    \/ \E t \in TxTitles, f \in TxFaults(CreateRecordSteps("createRecord", FALSE)) :
         CreateRecordWith("createRecord", f, NoPdf, FALSE, t, TxCreate.cabinetId,
                          TxCreate.creatorId, TxCreate.status, TRUE, NoFile)
    \/ \E t \in TxTitles, f \in TxFaults(CreateRecordSteps("createRecordWithFiles", TRUE)) :
         CreateRecordWith("createRecordWithFiles", f, NoPdf, TRUE, t, TxCreate.cabinetId,
                          TxCreate.creatorId, TxCreate.status, TRUE, NoFile)
    \/ \E r \in RecordIdArgs, u \in TxCallers, f \in TxFaults(DeleteRecordSteps) :
         DeleteRecord(f, r, u)
    \/ \E r \in RecordIdArgs, f \in TxFaults(UpdateRecordSteps(Undef)) :
         UpdateRecordWith(f, r, [EmptyPatch EXCEPT !.status = <<"pending">>], Undef, "u1")
    \/ \E r \in RecordIdArgs, c \in {"c2", MissingCabinetId},
          f \in TxFaults(ModifyRecordSteps(TxCreate.title)) :
         ModifyRecord(f, NoPdf, r, TxCreate.title, c, "u1", "draft", TRUE)
    \/ \E r \in RecordIdArgs, f \in TxFaults(ApproveRecordSteps) :
         ApproveRecordWith(f, r, "u3", Undef, EmptyPatch)
    \/ \E r \in RecordIdArgs, u \in TxReviewers, f \in TxFaults(RejectRecordSteps(Undef)) :
         RejectRecordWith(f, r, u, Undef, EmptyPatch)

SpecTx == Init /\ [][NextTx]_vars

(***************************************************************************)
(* SpecFields: validateCustomFields is called on a submission and a        *)
(* cabinet schema. The initial states hold the arguments of the call; the  *)
(* one step of a behaviour makes the call.                                 *)
(***************************************************************************)
\* A file descriptor as an upload stores it.
FileObj == Obj([fileName |-> Str("ab"), filePath |-> Str("ab")])
\* Submitted values that are not objects.
LeafValues ==
    {Null, Num(0), Num(5), NaN, Bool(TRUE), Bool(FALSE), Arr(<<>>), Arr(<<Str("ab")>>),
     Arr(<<Str("2024")>>), Arr(<<Num(5)>>), Arr(<<Str("")>>), Arr(<<Num(1), Num(2)>>)}
      \cup { Str(s) : s \in JsStrings }
\* Submitted objects: empty, wrapping a value, and with file properties.
ObjValues ==
    {EmptyObj, FileObj, Obj([fileName |-> Str("ab")]), Obj([filePath |-> Str("ab")])}
      \cup { Obj([value |-> v]) :
               v \in {Null, Str(""), Str("ab"), Num(5), Arr(<<>>), EmptyObj, FileObj} }
JsValues == LeafValues \cup ObjValues
\* The submissions with keys among `keys` and values among `vals`.
SubmissionsOver(keys, vals) == UNION { [K -> vals] : K \in SUBSET keys }

\* Schemas of one field of every type, mandatory or not, with and without a
\* character limit, against every value of that field.
OneFieldCalls ==
    { [submittedFields |-> sub, cabinetFields |-> <<Field("f1", type, m, lim)>>] :
        sub \in SubmissionsOver({"f1"}, JsValues), type \in FieldTypes,
        m \in BOOLEAN, lim \in {<<>>, <<1>>} }
\* Schemas of two fields against submissions that may leave either out and
\* may carry a key that is no field of the schema.
TwoFieldCalls ==
    { [submittedFields |-> sub,
       cabinetFields |-> <<Field("f1", "Text Only", FALSE, <<>>), Field("f2", type, m, <<>>)>>] :
        sub \in SubmissionsOver({"f1", "f2", "x"}, {Null, Str(""), Str("ab"), FileObj}),
        type \in {"Attachment", "Number Only"}, m \in BOOLEAN }
FieldsCalls == OneFieldCalls \cup TwoFieldCalls

InitFields ==
    /\ records = [r \in RecordIds |-> NoRecord]
    /\ versions = {}
    /\ nextVersionId = 1
    /\ notes = <<>>
    /\ hist = [r \in RecordIds |-> <<>>]
    /\ last = Outcome("none", 200)
    /\ \E c \in FieldsCalls :
         calls = [NoCalls EXCEPT !["p1"] =
                    [pc |-> "validateCustomFields",
                     submittedFields |-> c.submittedFields,
                     cabinetFields |-> c.cabinetFields]]
    /\ otherVersions = <<>>
    /\ pdfFiles = {}
    /\ thrown = NoError

\* The call of validateCustomFields: it returns validatedFields or throws
\* AppError 400.
ValidateCustomFieldsCall(p) ==
    /\ calls[p].pc = "validateCustomFields"
    /\ LET result == ValidateCustomFields(calls[p].submittedFields, calls[p].cabinetFields)
       IN  /\ calls' = [calls EXCEPT ![p] =
                          [pc |-> "validated",
                           submittedFields |-> calls[p].submittedFields,
                           cabinetFields |-> calls[p].cabinetFields,
                           result |-> result]]
           /\ last' = Outcome("validateCustomFields", IF result.err THEN 400 ELSE 200)
           /\ thrown' = ThrownCode(IF result.err THEN 400 ELSE 200, FALSE)
    /\ UNCHANGED <<records, versions, nextVersionId, notes, hist, otherVersions, pdfFiles>>

NextFields == ValidateCustomFieldsCall("p1")

SpecFields == InitFields /\ [][NextFields]_vars

(***************************************************************************)
(* SpecPdf: processPdfFile is applied to an uploaded file; the initial     *)
(* state holds the file, what its extraction would yield and the step of   *)
(* the extraction that fails, if any.                                      *)
(***************************************************************************)
\* File sizes in bytes around the halves and the wholes of a kilobyte.
FileSizes == {0, 1, 511, 512, 513, 1023, 1024, 1535, 1536, 1537, 2048, 10752}
FileNames == {"a.pdf", "scan 1.pdf"}
\* What a successful extraction yields.
PdfContents ==
    { [extractedText |-> "Total: 5 \n",
       extractedFields |-> << [name |-> "Total", value |-> "5"] >>,
       pageCount |-> 2] }
PdfCalls ==
    { [file |-> MulterFile(name, size), content |-> content, fail |-> fail] :
        name \in FileNames, size \in FileSizes, content \in PdfContents,
        fail \in ExtractSteps \cup {"none"} }

InitPdf ==
    /\ records = [r \in RecordIds |-> NoRecord]
    /\ versions = {}
    /\ nextVersionId = 1
    /\ notes = <<>>
    /\ hist = [r \in RecordIds |-> <<>>]
    /\ last = Outcome("none", 200)
    /\ \E c \in PdfCalls :
         calls = [NoCalls EXCEPT !["p1"] =
                    [pc |-> "processPdfFile", file |-> c.file,
                     content |-> c.content, fail |-> c.fail]]
    /\ otherVersions = <<>>
    /\ pdfFiles = {}
    /\ thrown = NoError

\* The call of processPdfFile.
ProcessPdfFileCall(p) ==
    /\ calls[p].pc = "processPdfFile"
    /\ LET result == ProcessPdfFile(calls[p].file, calls[p].content, calls[p].fail)
       IN  /\ calls' = [calls EXCEPT ![p] =
                          [pc |-> "processed", file |-> calls[p].file,
                           content |-> calls[p].content, fail |-> calls[p].fail,
                           result |-> result]]
           /\ last' = Outcome("processPdfFile", result.code)
           /\ thrown' = ThrownCode(result.code, FALSE)
    /\ UNCHANGED <<records, versions, nextVersionId, notes, hist, otherVersions, pdfFiles>>

NextPdf == ProcessPdfFileCall("p1")

SpecPdf == InitPdf /\ [][NextPdf]_vars

(***************************************************************************)
(* SpecVersionFaults: createNewVersion and deleteVersion, one call at a    *)
(* time, in which any one database statement may reject.                   *)
(***************************************************************************)
NextVersionFaults ==
    \/ \E d \in {GoodCreate} :
         CreateRecord(d.title, d.cabinetId, d.creatorId, d.status, d.fieldsOk, d.fileInfo)
    \/ \E r \in RecordIdArgs, f \in PlainFaults(CreateNewVersionSteps) :
         CreateNewVersionWith(f, r, Upload(nextVersionId), "u1")
    \/ \E a \in DeleteVersionArgs({"u1", "u2"}), f \in PlainFaults(DeleteVersionSteps) :
         DeleteVersionWith(f, a[1], a[2], a[3])

SpecVersionFaults == Init /\ [][NextVersionFaults]_vars

(***************************************************************************)
(* SpecConcDelete: two requests run deleteVersion at the same time, each   *)
(* suspended at every await. One record and its versions are created      *)
(* while no deleteVersion is running.                                      *)
(***************************************************************************)
\* The locals of a deleteVersion call after Record.findByPk returned.
DvCall(pc, rid, vid, uid, record) ==
    [pc |-> pc, recordId |-> rid, versionId |-> vid, userId |-> uid, record |-> record]

\* A deleteVersion call throws AppError `code`.
DvThrow(p, code) ==
    /\ calls' = [calls EXCEPT ![p] = Idle]
    /\ last' = Outcome("deleteVersion", code)
    /\ thrown' = ThrownCode(code, FALSE)
    /\ UNCHANGED <<records, versions, nextVersionId, notes, hist, otherVersions, pdfFiles>>

\* A deleteVersion call goes on to its next await with new locals.
DvGoto(p, locals) ==
    /\ calls' = [calls EXCEPT ![p] = locals]
    /\ UNCHANGED <<records, versions, nextVersionId, notes, hist, last,
                   otherVersions, pdfFiles, thrown>>

\* const record = await Record.findByPk(recordId)
DvFindRecord(p, rid, vid, uid) ==
    /\ calls[p] = Idle
    /\ IF ~RecordExists(rid) THEN DvThrow(p, 404)
       ELSE DvGoto(p, DvCall("findCabinet", rid, vid, uid, records[rid]))

\* const cabinet = await Cabinet.findByPk(record.cabinetId), and the
\* permission check on the record and the cabinet that were read.
DvFindCabinet(p) ==
    /\ calls[p].pc = "findCabinet"
    /\ IF calls[p].record.cabinetId \notin Cabinets THEN DvThrow(p, 404)
       ELSE IF ~MayDeleteVersion(calls[p].record, calls[p].userId) THEN DvThrow(p, 403)
       ELSE DvGoto(p, [calls[p] EXCEPT !.pc = "findVersion"])

\* const version = await RecordVersion.findOne({where: {id: versionId, recordId}})
DvFindVersion(p) ==
    /\ calls[p].pc = "findVersion"
    /\ LET found == { v \in VersionsOf(calls[p].recordId) : v.id = calls[p].versionId }
       IN  IF found = {} THEN DvThrow(p, 404)
           ELSE \E version \in found :
                  DvGoto(p, [pc |-> "count", recordId |-> calls[p].recordId,
                             versionId |-> calls[p].versionId, userId |-> calls[p].userId,
                             record |-> calls[p].record, version |-> version])

\* const versionsCount = await RecordVersion.count({where: {recordId}}), then
\* `version.version === record.version` on the instances read before.
DvCount(p) ==
    /\ calls[p].pc = "count"
    /\ IF Cardinality(VersionsOf(calls[p].recordId)) = 1 THEN DvThrow(p, 400)
       ELSE IF IsActiveVersion(calls[p].record, calls[p].version)
         THEN DvGoto(p, [calls[p] EXCEPT !.pc = "findPrevious"])
       ELSE DvGoto(p, [calls[p] EXCEPT !.pc = "destroy"])

\* const previousVersion = await RecordVersion.findOne({version < ..., DESC});
\* with a previous version, await record.update({...previousVersion's file,
\* version, lastModifiedBy: userId}).
DvFindPrevious(p) ==
    /\ calls[p].pc = "findPrevious"
    /\ LET prev == PreviousVersions(VersionsOf(calls[p].recordId), calls[p].version.version)
       IN  IF prev = {} THEN DvGoto(p, [calls[p] EXCEPT !.pc = "destroy"])
           ELSE \E previousVersion \in prev :
                  DvGoto(p, [pc |-> "update", recordId |-> calls[p].recordId,
                             versionId |-> calls[p].versionId, userId |-> calls[p].userId,
                             record |-> calls[p].record, version |-> calls[p].version,
                             previousVersion |-> previousVersion])

\* await record.update({...}): an UPDATE of the row with the record's id.
DvUpdate(p) ==
    /\ calls[p].pc = "update"
    /\ records' = [records EXCEPT ![calls[p].recordId] =
                     IF RecordExists(calls[p].recordId)
                       THEN PointRecordAt(@, calls[p].previousVersion.file,
                                          calls[p].previousVersion.version, calls[p].userId)
                       ELSE @]
    /\ calls' = [calls EXCEPT ![p] =
                   [pc |-> "destroy", recordId |-> calls[p].recordId,
                    versionId |-> calls[p].versionId, userId |-> calls[p].userId,
                    record |-> calls[p].record, version |-> calls[p].version]]
    /\ UNCHANGED <<versions, nextVersionId, notes, hist, last, otherVersions,
                   pdfFiles, thrown>>

\* await version.destroy(); return true. The DELETE is by the row's id and
\* deletes nothing when the row is gone already.
DvDestroy(p) ==
    /\ calls[p].pc = "destroy"
    /\ LET gone == { v \in versions : v.id = calls[p].version.id }
       IN  /\ versions' = versions \ gone
           /\ hist' = IF gone = {} THEN hist
                      ELSE [hist EXCEPT ![calls[p].recordId] =
                              Append(@, [kind |-> "delete",
                                         version |-> calls[p].version.version])]
    /\ calls' = [calls EXCEPT ![p] = Idle]
    /\ last' = Outcome("deleteVersion", 200)
    /\ thrown' = NoError
    /\ UNCHANGED <<records, nextVersionId, notes, otherVersions, pdfFiles>>

\* The record the two requests work on, and the deleteVersion calls made:
\* every version of the record by its creator, a version that does not
\* exist, a caller without permission and a record that does not exist.
ConcRecord == RecordOrder[1]
ConcDeleteArgs ==
    ({ConcRecord} \X (1..MaxVersionRows) \X {"u1"})
      \cup { <<ConcRecord, 0, "u1">>, <<ConcRecord, 1, "u2">>, <<MissingRecordId, 1, "u1">> }

NextConcDelete ==
    \/ /\ calls = NoCalls /\ ~RecordExists(ConcRecord)
       /\ \E d \in {GoodCreate} :
            CreateRecord(d.title, d.cabinetId, d.creatorId, d.status, d.fieldsOk, d.fileInfo)
    \/ /\ calls = NoCalls
       /\ CreateNewVersion(ConcRecord, Upload(nextVersionId), "u1")
    \/ \E p \in Procs, a \in ConcDeleteArgs : DvFindRecord(p, a[1], a[2], a[3])
    \/ \E p \in Procs : DvFindCabinet(p)
    \/ \E p \in Procs : DvFindVersion(p)
    \/ \E p \in Procs : DvCount(p)
    \/ \E p \in Procs : DvFindPrevious(p)
    \/ \E p \in Procs : DvUpdate(p)
    \/ \E p \in Procs : DvDestroy(p)

SpecConcDelete == Init /\ [][NextConcDelete]_vars

(***************************************************************************)
(* SpecConcReview: rejectRecord runs at the same time as approveRecord or  *)
(* updateRecord. Each call runs in its own transaction: `records` is the   *)
(* committed table, a row a transaction has updated is locked until that   *)
(* transaction ends and its new value is seen by the others at the commit. *)
(* Record.findByPk is a plain SELECT: it takes no lock and reads the       *)
(* committed row. The requests work on one pending record.                 *)
(***************************************************************************)
\* The locals of a call after Record.findByPk returned: `record` is the
\* instance that was read.
RvCall(pc, op, rid, uid, comments, data, record) ==
    [pc |-> pc, op |-> op, recordId |-> rid, userId |-> uid, comments |-> comments,
     data |-> data, record |-> record]

\* The requests whose transaction holds the lock of the row of record rid.
LockHolders(rid) == { q \in Procs : calls[q].pc = "commit" /\ calls[q].recordId = rid }
\* The call inserts a RecordNoteComment row: approveRecord always does,
\* updateRecord and rejectRecord when they are given comments.
InsertsNote(op, comments) == op = "approveRecord" \/ HasText(comments)
\* The checks of rejectRecord on the record instance that was read; the
\* other operations have none after Record.findByPk.
PassesChecks(op, record, uid) ==
    op = "rejectRecord" =>
      /\ record.cabinetId \in Cabinets
      /\ MayReject(record, uid)
      /\ record.status = "pending"
\* Calls that have started and will reach RecordNoteComment.create: those
\* that insert a row and whose checks pass on the record they have read.
NotesRunning ==
    { q \in Procs : /\ calls[q].pc \in {"check", "update", "commit"}
                    /\ InsertsNote(calls[q].op, calls[q].comments)
                    /\ PassesChecks(calls[q].op, calls[q].record, calls[q].userId) }
\* The row RecordNoteComment.create inserts, for each operation; approveRecord
\* takes its note for `comments`.
WrittenNote(op, rid, comments, uid) ==
    CASE op = "rejectRecord" -> NoteRow(rid, comments, "comment", "reject", uid)
      [] op = "approveRecord" ->
           NoteRow(rid, IF HasText(comments) THEN comments ELSE "Record approved",
                   "system", "approve", uid)
      [] OTHER -> NoteRow(rid, comments, "comment", Undef, uid)

\* A call throws AppError `code`; its transaction is rolled back.
RvThrow(p, op, code) ==
    /\ calls' = [calls EXCEPT ![p] = Idle]
    /\ last' = Outcome(op, code)
    /\ thrown' = ThrownCode(code, OpenAt(op, "check"))
    /\ UNCHANGED <<records, versions, nextVersionId, notes, hist, otherVersions, pdfFiles>>

\* A call goes on to its next await with new locals.
RvGoto(p, locals) ==
    /\ calls' = [calls EXCEPT ![p] = locals]
    /\ UNCHANGED <<records, versions, nextVersionId, notes, hist, last,
                   otherVersions, pdfFiles, thrown>>

\* await sequelize.transaction(); const record = await Record.findByPk(id)
RvFind(p, op, rid, uid, comments, data) ==
    /\ calls[p] = Idle
    /\ (/\ RecordExists(rid)
        /\ InsertsNote(op, comments)
        /\ PassesChecks(op, records[rid], uid))
         => Len(notes) + Cardinality(NotesRunning) < MaxNotes
    /\ IF ~RecordExists(rid) THEN RvThrow(p, op, 404)
       ELSE RvGoto(p, RvCall(IF op = "rejectRecord" THEN "check" ELSE "update",
                             op, rid, uid, comments, data, records[rid]))

\* rejectRecord: Cabinet.findByPk, CabinetMember.findOne, and the checks of
\* the caller and of the status of the record that was read.
RjCheck(p) ==
    /\ calls[p].pc = "check"
    /\ IF calls[p].record.cabinetId \notin Cabinets THEN RvThrow(p, calls[p].op, 404)
       ELSE IF ~MayReject(calls[p].record, calls[p].userId) THEN RvThrow(p, calls[p].op, 403)
       ELSE IF calls[p].record.status # "pending" THEN RvThrow(p, calls[p].op, 400)
       ELSE RvGoto(p, [calls[p] EXCEPT !.pc = "update"])

\* The row record.update writes, for each operation.
WrittenRow(op, row, data, uid) ==
    CASE op = "rejectRecord" -> RejectedRow(row, data, uid)
      [] op = "approveRecord" -> ApprovedRow(row, data, uid)
      [] OTHER -> UpdatedRow(row, data, uid)

\* await record.update({...}, { transaction }): the UPDATE waits while
\* another transaction holds the lock of the row, then locks the row.
RvUpdate(p) ==
    /\ calls[p].pc = "update"
    /\ LockHolders(calls[p].recordId) = {}
    /\ RvGoto(p, [calls[p] EXCEPT !.pc = "commit"])

\* RecordNoteComment.create({...}, { transaction }), when the call inserts
\* a row, and await transaction.commit(): the writes of the transaction
\* become visible and the lock of the row is released.
RvCommit(p) ==
    /\ calls[p].pc = "commit"
    /\ records' = [records EXCEPT ![calls[p].recordId] =
                     WrittenRow(calls[p].op, @, calls[p].data, calls[p].userId)]
    /\ notes' = IF InsertsNote(calls[p].op, calls[p].comments)
                  THEN Append(notes, WrittenNote(calls[p].op, calls[p].recordId,
                                                 calls[p].comments, calls[p].userId))
                  ELSE notes
    /\ calls' = [calls EXCEPT ![p].pc = "return"]
    /\ UNCHANGED <<versions, nextVersionId, hist, last, otherVersions, pdfFiles, thrown>>

\* The awaits after the commit (ActivityService.logActivity, the
\* NotificationService call, Record.findByPk), which write none of the
\* tables, and the return of the call.
RvReturn(p) ==
    /\ calls[p].pc = "return"
    /\ calls' = [calls EXCEPT ![p] = Idle]
    /\ last' = Outcome(calls[p].op, 200)
    /\ thrown' = NoError
    /\ UNCHANGED <<records, versions, nextVersionId, notes, hist, otherVersions, pdfFiles>>

\* The calls made, as (operation, caller, comments or note, data):
\* rejectRecord by an approver, with comments, with empty comments and
\* without comments, and by a user who may not reject, with and without
\* comments; approveRecord; updateRecord with and without a status and with
\* comments.
ConcReviewArgs ==
    { <<"rejectRecord", "u3", Undef, EmptyPatch>>,
      <<"rejectRecord", "u3", "", EmptyPatch>>,
      <<"rejectRecord", "u3", "text", EmptyPatch>>,
      <<"rejectRecord", "u1", Undef, EmptyPatch>>,
      <<"rejectRecord", "u1", "text", EmptyPatch>>,
      <<"approveRecord", "u3", Undef, EmptyPatch>>,
      <<"approveRecord", "u3", "text", EmptyPatch>>,
      <<"updateRecord", "u1", Undef, EmptyPatch>>,
      <<"updateRecord", "u1", Undef, [EmptyPatch EXCEPT !.status = <<"pending">>]>>,
      <<"updateRecord", "u1", "text", [EmptyPatch EXCEPT !.status = <<"draft">>]>> }

NextConcReview ==
    \/ /\ calls = NoCalls /\ ~RecordExists(ConcRecord)
       /\ \E d \in {TxCreate} :
            CreateRecord(d.title, d.cabinetId, d.creatorId, d.status, d.fieldsOk, d.fileInfo)
    \/ \E p \in Procs, r \in {ConcRecord, MissingRecordId}, a \in ConcReviewArgs :
         RvFind(p, a[1], r, a[2], a[3], a[4])
    \/ \E p \in Procs : RjCheck(p)
    \/ \E p \in Procs : RvUpdate(p)
    \/ \E p \in Procs : RvCommit(p)
    \/ \E p \in Procs : RvReturn(p)

SpecConcReview == Init /\ [][NextConcReview]_vars

(***************************************************************************)
(* SpecConcModify: two requests run modifyRecord on one record at the same *)
(* time, each suspended at its awaits. The checks after Record.findByPk    *)
(* read tables that no request writes, so they are taken with it.          *)
(***************************************************************************)
\* modifyRecord calls that have started and have not inserted their row.
ModifiesRunning == { q \in Procs : calls[q].pc \in {"findLatest", "create"} }

\* Record.findByPk, Cabinet.findByPk, User.findByPk, validateCustomFields:
\* the call starts and throws what its checks find.
MrFindRecord(p, recordId, title, cabinetId, creatorId, status, fieldsOk) ==
    /\ calls[p] = Idle
    /\ Len(otherVersions) + Cardinality(ModifiesRunning) < MaxOtherVersions
    /\ LET code == ModifyRecordCode(recordId, cabinetId, creatorId, fieldsOk)
       IN  IF code # 200
             THEN /\ last' = Outcome("modifyRecord", code)
                  /\ thrown' = ThrownCode(code, FALSE)
                  /\ UNCHANGED <<records, versions, nextVersionId, notes, hist, calls,
                                 otherVersions, pdfFiles>>
             ELSE /\ calls' = [calls EXCEPT ![p] =
                                 [pc |-> "findLatest", recordId |-> recordId,
                                  title |-> title, cabinetId |-> cabinetId,
                                  creatorId |-> creatorId, status |-> status]]
                  /\ UNCHANGED <<records, versions, nextVersionId, notes, hist, last,
                                 otherVersions, pdfFiles, thrown>>

\* const latestVersion = await RecordOtherVersion.findOne({ where:
\* { originalRecordId }, order: version DESC }); newVersion
MrFindLatest(p) ==
    /\ calls[p].pc = "findLatest"
    /\ calls' = [calls EXCEPT ![p] =
                   [pc |-> "create", recordId |-> calls[p].recordId,
                    title |-> calls[p].title, cabinetId |-> calls[p].cabinetId,
                    creatorId |-> calls[p].creatorId, status |-> calls[p].status,
                    newVersion |->
                      NextOtherVersion(OtherVersionsOf(otherVersions, calls[p].recordId))]]
    /\ UNCHANGED <<records, versions, nextVersionId, notes, hist, last,
                   otherVersions, pdfFiles, thrown>>

\* sequelize.transaction(); RecordOtherVersion.create({..., title:
\* data.title.trim(), version: newVersion}, { transaction });
\* transaction.commit(): the row is inserted, no constraint of the table
\* rejects it. With an undefined title `data.title.trim()` throws a
\* TypeError inside the try block: the transaction is rolled back and the
\* call throws.
MrCreate(p) ==
    /\ calls[p].pc = "create"
    /\ IF calls[p].title = NoTitle
         THEN /\ calls' = [calls EXCEPT ![p] = Idle]
              /\ last' = Outcome("modifyRecord", ServerError)
              /\ thrown' = Thrown(CatchUnguarded("trim", NoFault), OpenAt("modifyRecord", "trim"))
              /\ UNCHANGED otherVersions
         ELSE /\ otherVersions' =
                   Append(otherVersions,
                          NewOtherVersionRow(calls[p].recordId, calls[p].title,
                                             calls[p].cabinetId, calls[p].creatorId,
                                             calls[p].status, calls[p].newVersion,
                                             PdfFileInfo(NoPdf)))
              /\ calls' = [calls EXCEPT ![p].pc = "return"]
              /\ UNCHANGED <<last, thrown>>
    /\ UNCHANGED <<records, versions, nextVersionId, notes, hist, pdfFiles>>

\* The awaits after the commit (ActivityService.logActivity,
\* NotificationService.createNotification), which write none of the tables,
\* and the return of the call.
MrReturn(p) ==
    /\ calls[p].pc = "return"
    /\ calls' = [calls EXCEPT ![p] = Idle]
    /\ last' = Outcome("modifyRecord", 200)
    /\ thrown' = NoError
    /\ UNCHANGED <<records, versions, nextVersionId, notes, hist, otherVersions, pdfFiles>>

\* The titles of the two requests, and an undefined title.
ConcTitles(p) == {IF p = "p1" THEN <<"a">> ELSE <<"b">>, NoTitle}

NextConcModify ==
    \/ /\ calls = NoCalls /\ ~RecordExists(ConcRecord)
       /\ \E d \in {GoodCreate} :
            CreateRecord(d.title, d.cabinetId, d.creatorId, d.status, d.fieldsOk, d.fileInfo)
    \/ \E p \in Procs, r \in {ConcRecord, MissingRecordId}, a \in ModifyChecks,
          st \in {"approved", "draft"} :
         \E t \in ConcTitles(p) : MrFindRecord(p, r, t, a[1], a[2], st, a[3])
    \/ \E p \in Procs : MrFindLatest(p)
    \/ \E p \in Procs : MrCreate(p)
    \/ \E p \in Procs : MrReturn(p)

SpecConcModify == Init /\ [][NextConcModify]_vars

(***************************************************************************)
(* SpecConc: two requests run createNewVersion at the same time. A request *)
(* is suspended at each await, that is at each database round trip, and    *)
(* the other request may run in between.                                   *)
(***************************************************************************)
\* Requests that have read or will read the latest version and have not
\* inserted their row yet.
AboutToInsert == { q \in Procs : calls[q].pc \in {"findLatest", "create"} }

\* await Record.findByPk(recordId): the call starts, 404 when there is no row.
CnvFindRecord(p, rid, file, uploadedBy) ==
    /\ calls[p] = Idle
    /\ IF ~RecordExists(rid)
         THEN /\ last' = Outcome("createNewVersion", 404)
              /\ thrown' = ThrownCode(404, FALSE)
              /\ UNCHANGED <<records, versions, nextVersionId, notes, hist, calls,
                             otherVersions, pdfFiles>>
         ELSE /\ nextVersionId + Cardinality(AboutToInsert) <= MaxVersionRows
              /\ calls' = [calls EXCEPT ![p] =
                             [pc |-> "findLatest", recordId |-> rid, file |-> file,
                              uploadedBy |-> uploadedBy]]
              /\ UNCHANGED <<records, versions, nextVersionId, notes, hist, last,
                             otherVersions, pdfFiles, thrown>>

\* await RecordVersion.findOne({ where: { recordId }, order: version DESC })
CnvFindLatest(p) ==
    /\ calls[p].pc = "findLatest"
    /\ calls' = [calls EXCEPT ![p] =
                   [pc |-> "create", recordId |-> calls[p].recordId,
                    file |-> calls[p].file, uploadedBy |-> calls[p].uploadedBy,
                    newVersionNumber |->
                        NextVersionNumber(VersionsOf(calls[p].recordId))]]
    /\ UNCHANGED <<records, versions, nextVersionId, notes, hist, last,
                   otherVersions, pdfFiles, thrown>>

\* await RecordVersion.create({ recordId, version: newVersionNumber, ... })
CnvCreate(p) ==
    /\ calls[p].pc = "create"
    /\ versions' = InsertVersionRow(versions,
                      NewVersionRow(nextVersionId, calls[p].recordId,
                                    calls[p].newVersionNumber, calls[p].file,
                                    calls[p].uploadedBy))
    /\ nextVersionId' = nextVersionId + 1
    /\ hist' = [hist EXCEPT ![calls[p].recordId] =
                  Append(@, [kind |-> "create", version |-> calls[p].newVersionNumber])]
    /\ calls' = [calls EXCEPT ![p].pc = "update"]
    /\ UNCHANGED <<records, notes, last, otherVersions, pdfFiles, thrown>>

\* await record.update({ ...file info, version: newVersionNumber }); return
CnvUpdate(p) ==
    /\ calls[p].pc = "update"
    /\ records' = [records EXCEPT ![calls[p].recordId] =
                     PointRecordAt(@, calls[p].file, calls[p].newVersionNumber,
                                   calls[p].uploadedBy)]
    /\ calls' = [calls EXCEPT ![p] = Idle]
    /\ last' = Outcome("createNewVersion", 200)
    /\ thrown' = NoError
    /\ UNCHANGED <<versions, nextVersionId, notes, hist, otherVersions, pdfFiles>>

\* The file request p uploads: different for any two calls.
UploadBy(p) == Upload(2 * nextVersionId + (IF p = "p1" THEN 0 ELSE 1))

NextConc ==
    \/ \E d \in {GoodCreate} :
         CreateRecord(d.title, d.cabinetId, d.creatorId, d.status, d.fieldsOk, d.fileInfo)
    \/ \E p \in Procs, r \in RecordIdArgs : CnvFindRecord(p, r, UploadBy(p), "u1")
    \/ \E p \in Procs : CnvFindLatest(p)
    \/ \E p \in Procs : CnvCreate(p)
    \/ \E p \in Procs : CnvUpdate(p)

SpecConc == Init /\ [][NextConc]_vars

(***************************************************************************)
(* Properties.                                                             *)
(***************************************************************************)
\* The events of a history are all createNewVersion calls.
OnlyCreates(h) == \A i \in DOMAIN h : h[i].kind = "create"
SomeDelete(h) == \E i \in DOMAIN h : h[i].kind = "delete"

\* The Record mirrors RecordVersion row v: same version, same file descriptor.
Mirrors(row, v) ==
    /\ v.version = row.version
    /\ v.file.filePath = row.file.filePath
    /\ v.file.fileName = row.file.fileName
    /\ v.file.fileSize = row.file.fileSize
    /\ v.file.fileType = row.file.fileType
    /\ v.file.fileHash = row.file.fileHash

\* C1: on a record that had no RecordVersion rows, the k-th successful
\* createNewVersion call (no deleteVersion having run on the record) assigns
\* version k, so that the rows of the record are numbered 1..k in call
\* order, and after the call Record.version is k.
C1_VersionsNumberedInCallOrder ==
    [][ \A r \in RecordIds :
          ( /\ last'.op = "createNewVersion" /\ last'.code = 200
            /\ Len(hist'[r]) = Len(hist[r]) + 1
            /\ OnlyCreates(hist'[r]) )
          => LET k == Len(hist'[r])
             IN  /\ \A i \in 1..k : hist'[r][i].version = i
                 /\ { v.version : v \in { w \in versions' : w.recordId = r } } = 1..k
                 /\ \A v, w \in { x \in versions' : x.recordId = r } :
                       v.id < w.id => v.version < w.version
                 /\ records'[r].version = k ]_vars

\* C1 witness: three createNewVersion calls in a row succeeded on a record.
C1_Witness ==
    \E r \in RecordIds :
        /\ Len(hist[r]) = 3 /\ OnlyCreates(hist[r])
        /\ last = Outcome("createNewVersion", 200)
        /\ records[r].version = 3

\* C2: in every reachable state, the version of every Record that has
\* RecordVersion rows is the version number of one of those rows whose five
\* file descriptor fields equal the Record's. (A Record fresh from
\* createRecord has no row yet; the property is about the Records that have
\* been given one.)
C2_RecordMirrorsAVersion ==
    \A r \in RecordIds :
        (RecordExists(r) /\ VersionsOf(r) # {})
          => \E v \in VersionsOf(r) : Mirrors(records[r], v)

\* C3 as stated: every existing Record has at least one RecordVersion row.
C3_EveryRecordHasAVersion ==
    \A r \in RecordIds : RecordExists(r) => VersionsOf(r) # {}

\* C3 amended: a Record that was given a RecordVersion by createNewVersion
\* has at least one RecordVersion row ever after.
C3_VersionedRecordKeepsAVersion ==
    \A r \in RecordIds : hist[r] # <<>> => VersionsOf(r) # {}

\* C3 witness: deleteVersion was just refused on a record that lost a
\* version before and has one row left.
C3_Witness ==
    \E r \in RecordIds :
        /\ SomeDelete(hist[r])
        /\ Cardinality(VersionsOf(r)) = 1
        /\ last = Outcome("deleteVersion", 400)

\* C4 as stated: no two RecordVersion rows of the same record carry the
\* same version number.
C4_VersionNumbersUnique ==
    \A v, w \in versions :
        (v.recordId = w.recordId /\ v.version = w.version) => v = w

\* The caller is the creator of record r or the owner of its cabinet.
CreatorOrOwner(r, u) ==
    records[r].creatorId = u \/ CabinetCreatedById[records[r].cabinetId] = u

\* The RecordVersion row of record r with primary key v, if any.
TargetOf(r, v) == { t \in VersionsOf(r) : t.id = v }

\* p is, among `rows`, a row of record r with the greatest version below n.
GreatestBelow(p, rows, r, n) ==
    /\ p \in rows /\ p.recordId = r /\ p.version < n
    /\ \A w \in rows : (w.recordId = r /\ w.version < n) => w.version <= p.version

\* C5: deleteVersion by the creator or the cabinet owner, aimed at the one
\* RecordVersion a record has, fails with 400 and changes neither that row
\* nor the Record.
C5_OnlyVersionIsKept ==
    [][ last'.op = "deleteVersion" =>
        \A r \in RecordIds :
          (RecordExists(r) /\ Cardinality(VersionsOf(r)) = 1)
            => \A v \in VersionIdArgs, u \in Users :
                 ( /\ TargetOf(r, v) # {} /\ CreatorOrOwner(r, u)
                   /\ DeleteVersion(r, v, u) )
                 => /\ last' = Outcome("deleteVersion", 400)
                    /\ versions' = versions
                    /\ records' = records ]_vars

\* C5 witness: deleteVersion was refused with 400 on a record with one row,
\* while another record has rows of its own.
C5_Witness ==
    \E r, q \in RecordIds :
        /\ r # q
        /\ Cardinality(VersionsOf(r)) = 1
        /\ VersionsOf(q) # {}
        /\ last = Outcome("deleteVersion", 400)

\* C6: a deleteVersion that removes the active version of a record
\* with two or more versions leaves the Record mirroring the remaining row
\* with the greatest version below the deleted one.
C6_ActiveDeletionPromotesPrevious ==
    [][ last'.op = "deleteVersion" =>
        \A r \in RecordIds, v \in VersionIdArgs, u \in Users :
          ( /\ last'.code = 200
            /\ Cardinality(VersionsOf(r)) >= 2
            /\ \E t \in TargetOf(r, v) : t.version = records[r].version
            /\ DeleteVersion(r, v, u) )
          => /\ TargetOf(r, v) \cap versions' = {}
             /\ \E p \in versions' :
                   /\ GreatestBelow(p, versions', r, records[r].version)
                   /\ Mirrors(records'[r], p) ]_vars

\* C7: a successful deleteVersion of a version that is not the active one
\* leaves the Record's version, file descriptor and lastModifiedBy as they
\* were and removes exactly that one RecordVersion row.
C7_InactiveDeletionKeepsRecord ==
    [][ last'.op = "deleteVersion" =>
        \A r \in RecordIds, v \in VersionIdArgs, u \in Users :
          ( /\ last'.code = 200
            /\ \E t \in TargetOf(r, v) : t.version # records[r].version
            /\ DeleteVersion(r, v, u) )
          => /\ records'[r].version = records[r].version
             /\ records'[r].file = records[r].file
             /\ records'[r].lastModifiedBy = records[r].lastModifiedBy
             /\ versions' = versions \ TargetOf(r, v) ]_vars

\* C7 witness: version 2 of a record has just been deleted while version 3
\* is the active one and version 1 is still there.
C7_Witness ==
    \E r \in RecordIds :
        /\ last = Outcome("deleteVersion", 200)
        /\ hist[r] # <<>> /\ hist[r][Len(hist[r])] = [kind |-> "delete", version |-> 2]
        /\ records[r].version = 3
        /\ VersionNumbersOf(r) = {1, 3}

\* The status changes C8 allows.
StateMachineEdges ==
    { <<"draft", "pending">>, <<"pending", "approved">>, <<"pending", "rejected">> }
      \cup { <<s, "archived">> : s \in Statuses }

\* The caller is listed in the approvers of record r's cabinet, or has a
\* CabinetMember row with role member_full for that cabinet.
ApproverOrMemberFull(r, u) ==
    \/ u \in CabinetApprovers[records[r].cabinetId]
    \/ [cabinetId |-> records[r].cabinetId, userId |-> u, role |-> "member_full"]
         \in CabinetMemberRows

\* C8 as stated: every change of a Record's status follows draft->pending,
\* pending->approved, pending->rejected or any->archived.
C8_StatusFollowsStateMachine ==
    [][ \A r \in RecordIds :
          (RecordExists(r) /\ records'[r].status # records[r].status)
            => <<records[r].status, records'[r].status>> \in StateMachineEdges ]_vars

\* C8 amended: a status change made by rejectRecord is pending->rejected; a
\* status change made by approveRecord ends in approved, from any status; a
\* status change made by updateRecord ends in the status its data carries,
\* from any status.
C8_StatusChangesByOperation ==
    [][ \A r \in RecordIds :
          (RecordExists(r) /\ records'[r].status # records[r].status)
            => \/ /\ last'.op = "rejectRecord"
                  /\ records[r].status = "pending"
                  /\ records'[r].status = "rejected"
               \/ /\ last'.op = "approveRecord"
                  /\ records'[r].status = "approved"
               \/ /\ last'.op = "updateRecord"
                  /\ \E d \in StatusPatches, c \in CommentArgs :
                        /\ UpdateRecord(r, d, c, "u1")
                        /\ d.status = <<records'[r].status>> ]_vars

\* C8 witness: approveRecord has just approved a record.
C8_Witness ==
    \E r \in RecordIds :
        /\ RecordExists(r)
        /\ last = Outcome("approveRecord", 200)
        /\ records[r].status = "approved"
        /\ records[r].lastModifiedBy = "u3"

\* C9 as stated: rejectRecord on an existing record that is not pending
\* fails with 400 for every caller and leaves the record unchanged.
C9_RejectNonPendingIs400 ==
    [][ last'.op = "rejectRecord" =>
        \A r \in RecordIds, u \in Users :
          ( /\ RecordExists(r) /\ records[r].status # "pending"
            /\ last'.code = RejectRecordCode(r, u)
            /\ \E a \in ReviewPairs : RejectRecord(r, u, a[1], a[2]) )
          => /\ last' = Outcome("rejectRecord", 400)
             /\ records' = records /\ notes' = notes ]_vars

\* C9 amended: rejectRecord on an existing record that is not pending fails
\* with 400 when the caller is a cabinet approver or a member_full member,
\* and with 403 for any other caller; the record is unchanged either way.
C9_RejectNonPendingFails ==
    [][ last'.op = "rejectRecord" =>
        \A r \in RecordIds, u \in Users :
          ( /\ RecordExists(r) /\ records[r].status # "pending"
            /\ last'.code = RejectRecordCode(r, u)
            /\ \E a \in ReviewPairs : RejectRecord(r, u, a[1], a[2]) )
          => /\ last' = Outcome("rejectRecord",
                                IF ApproverOrMemberFull(r, u) THEN 400 ELSE 403)
             /\ records' = records /\ notes' = notes ]_vars

\* C9 witness: rejectRecord has just failed with 400 on a record that is
\* approved.
C9_Witness ==
    /\ last = Outcome("rejectRecord", 400)
    /\ \E r \in RecordIds : RecordExists(r) /\ records[r].status = "approved"

\* C10: rejectRecord on an existing record by a caller who is neither an
\* approver of its cabinet nor a member_full member of it fails with 403 and
\* changes neither the Record nor the notes and comments; by an approver or
\* member_full member on a pending record, it sets status rejected and adds
\* the reject comment when one is given.
C10_RejectNeedsApproverOrMemberFull ==
    [][ last'.op = "rejectRecord" =>
        \A r \in RecordIds :
          RecordExists(r) =>
            \A u \in Users :
              last'.code = RejectRecordCode(r, u) =>
                IF ~ApproverOrMemberFull(r, u)
                  THEN (\E c \in CommentArgs, d \in ReviewPatches :
                           RejectRecord(r, u, c, d))
                         => /\ last' = Outcome("rejectRecord", 403)
                            /\ records' = records /\ notes' = notes
                  ELSE \A c \in CommentArgs :
                         ( /\ records[r].status = "pending"
                           /\ \E d \in ReviewPatches : RejectRecord(r, u, c, d) )
                         => /\ last' = Outcome("rejectRecord", 200)
                            /\ records'[r].status = "rejected"
                            /\ records'[r].lastModifiedBy = u
                            /\ notes' = IF ~HasText(c) THEN notes
                                        ELSE Append(notes,
                                               [recordId |-> r, content |-> c,
                                                type |-> "comment",
                                                action |-> "reject",
                                                createdBy |-> u]) ]_vars

\* C10 witness: rejectRecord has just failed with 403 while a pending record
\* exists in each cabinet.
C10_Witness ==
    /\ last = Outcome("rejectRecord", 403)
    /\ \E r, q \in RecordIds :
          /\ RecordExists(r) /\ RecordExists(q)
          /\ records[r].cabinetId = "c1" /\ records[q].cabinetId = "c2"
          /\ records[r].status = "pending" /\ records[q].status = "pending"

\* The RecordVersion rows of record r after the step.
VersionsOfAfter(r) == { v \in versions' : v.recordId = r }

\* C11: deleteRecord on an existing record by a caller who is not its
\* creator, the owner of its cabinet, an approver of the cabinet or a
\* member_full member of it fails with 403 and leaves every Record and every
\* RecordVersion in place; by a caller who is one of these, and with no step
\* failing, it succeeds and the Record is gone.
C11_DeleteRecordNeedsPermission ==
    [][ last'.op = "deleteRecord" =>
        \A r \in RecordIds :
          RecordExists(r) =>
            \A u \in Users :
              IF CreatorOrOwner(r, u) \/ ApproverOrMemberFull(r, u)
                THEN (last'.code = DeleteRecordCode(r, u) /\ DeleteRecord(NoFault, r, u))
                       => /\ last' = Outcome("deleteRecord", 200)
                          /\ records'[r] = DestroyedRecord
                ELSE (/\ last'.code \in {DeleteRecordCode(r, u), ServerError}
                      /\ \E f \in FaultsAt(DeleteRecordSteps) : DeleteRecord(f, r, u))
                       => /\ last' = Outcome("deleteRecord", 403)
                          /\ records' = records
                          /\ versions' = versions ]_vars

\* C11 witness: deleteRecord has just been refused with 403 on a record that
\* has RecordVersions, after another record was deleted.
C11_Witness ==
    /\ last = Outcome("deleteRecord", 403)
    /\ \E r, q \in RecordIds :
          /\ RecordExists(r) /\ VersionsOf(r) # {}
          /\ records[q] = DestroyedRecord

\* C12: deleteVersion on an existing record by a caller who is neither its
\* creator nor the owner of its cabinet fails with 403, removes no
\* RecordVersion and leaves the Record as it was, also when the caller is an
\* approver or a member_full member of the cabinet and so passes the
\* permission check of deleteRecord.
C12_DeleteVersionNeedsCreatorOrOwner ==
    [][ last'.op = "deleteVersion" =>
        \A r \in RecordIds :
          RecordExists(r) =>
            \A u \in Users :
              ~CreatorOrOwner(r, u) =>
                /\ ApproverOrMemberFull(r, u) => MayDeleteRecord(records[r], u)
                /\ \A v \in VersionIdArgs :
                     DeleteVersion(r, v, u)
                       => /\ last' = Outcome("deleteVersion", 403)
                          /\ versions' = versions
                          /\ records' = records ]_vars

\* C12 witness: deleteVersion has just been refused with 403 while the only
\* existing record has two RecordVersions, either of which its creator
\* could delete.
C12_Witness ==
    /\ last = Outcome("deleteVersion", 403)
    /\ \E r \in RecordIds :
          /\ RecordExists(r) /\ Cardinality(VersionsOf(r)) = 2
          /\ \A q \in RecordIds \ {r} : ~RecordExists(q)

\* C13: a deleteRecord that returns leaves exactly one Record less, with no
\* RecordVersion of it; a deleteRecord that throws, whichever step failed,
\* leaves every Record and every RecordVersion in place.
C13_DeleteRecordAllOrNothing ==
    [][ last'.op = "deleteRecord" =>
        IF last'.code = 200
          THEN /\ \E r \in RecordIds : RecordExists(r) /\ records'[r] = DestroyedRecord
               /\ \A r \in RecordIds :
                    RecordExists(r) =>
                      \/ records'[r] = DestroyedRecord /\ VersionsOfAfter(r) = {}
                      \/ records'[r] = records[r] /\ VersionsOfAfter(r) = VersionsOf(r)
          ELSE /\ records' = records
               /\ versions' = versions ]_vars

\* C13 witness: record.destroy has just failed in a deleteRecord, after the
\* RecordVersions were destroyed, and every existing record still has its
\* RecordVersions.
C13_Witness ==
    /\ last = Outcome("deleteRecord", ServerError)
    /\ thrown.error = "destroyRecord"
    /\ \E r \in RecordIds : RecordExists(r)
    /\ \A r \in RecordIds : RecordExists(r) => Cardinality(VersionsOf(r)) >= 1

(***************************************************************************)
(* modifyRecord: the snapshots of a record.                                *)
(***************************************************************************)
\* The version numbers the snapshots of record r carry in `rows`.
OtherVersionNumbers(rows, r) ==
    { rows[i].version : i \in { j \in DOMAIN rows : rows[j].originalRecordId = r } }

\* C14: a modifyRecord call that succeeds adds exactly one RecordOtherVersion
\* row; its version is the greatest version among the earlier snapshots of
\* the same record plus one, or 2 when the record had none; the snapshots of
\* a record are therefore numbered 2, 3, ..., k + 1 in call order.
C14_ModifyNumbersSnapshots ==
    [][ (last'.op = "modifyRecord" /\ last'.code = 200) =>
          /\ Len(otherVersions') = Len(otherVersions) + 1
          /\ SubSeq(otherVersions', 1, Len(otherVersions)) = otherVersions
          /\ LET new == otherVersions'[Len(otherVersions')]
                 old == OtherVersionNumbers(otherVersions, new.originalRecordId)
             IN  new.version = IF old = {} THEN 2 ELSE SetMax(old) + 1
          /\ \A r \in RecordIds :
               LET mine == OtherVersionsOf(otherVersions', r)
               IN  \A i \in DOMAIN mine : mine[i].version = i + 1 ]_vars

\* Three modifyRecord calls on one record have succeeded.
C14_Witness ==
    /\ last = Outcome("modifyRecord", 200)
    /\ \E r \in RecordIds : OtherVersionNumbers(otherVersions, r) = {2, 3, 4}

\* C15: a modifyRecord call, whether it succeeds or fails, leaves every
\* Record row and every RecordVersion row as it was.
C15_ModifyLeavesOriginal ==
    [][ last'.op = "modifyRecord" => (records' = records /\ versions' = versions) ]_vars

\* modifyRecord has stored a snapshot whose title and status differ from
\* those of the original, which has RecordVersion rows.
C15_Witness ==
    /\ last = Outcome("modifyRecord", 200)
    /\ otherVersions # <<>>
    /\ LET new == otherVersions[Len(otherVersions)]
           r == new.originalRecordId
       IN  /\ RecordExists(r)
           /\ VersionsOf(r) # {}
           /\ new.title # records[r].title
           /\ new.status # records[r].status

(***************************************************************************)
(* createRecord: the title and the pdfFile.                                *)
(***************************************************************************)
\* The title is missing, empty, or made of whitespace only.
Blank(t) == t = NoTitle \/ \A k \in DOMAIN t : t[k] \in {" ", "\t"}

\* s is t without its leading and its trailing whitespace.
IsTrimOf(s, t) ==
    /\ s # <<>> => (s[1] \notin {" ", "\t"} /\ s[Len(s)] \notin {" ", "\t"})
    /\ \E i \in 0..Len(t) :
         /\ i + Len(s) <= Len(t)
         /\ SubSeq(t, i + 1, i + Len(s)) = s
         /\ \A k \in (1..i) \cup ((i + Len(s) + 1)..Len(t)) : t[k] \in {" ", "\t"}

\* C16: createRecord with a missing, empty or whitespace-only title is
\* rejected with status 400 and creates no Record; with any other title (and
\* valid cabinet, creator and fields) it succeeds and the Record it persists
\* has the title with leading and trailing whitespace removed and version 1.
C16_TitleCheckedAndTrimmed ==
    [][ last'.op = "createRecord" =>
          \A t \in TitleArgs :
            CreateRecordWith("createRecord", NoFault, NoPdf, FALSE, t, GoodCreate.cabinetId,
                             GoodCreate.creatorId, GoodCreate.status, TRUE, NoFile)
              => IF Blank(t)
                   THEN last'.code = 400 /\ records' = records
                   ELSE /\ last'.code = 200
                        /\ \E id \in RecordIds :
                             /\ records[id] = NoRecord
                             /\ RecordExists(id)'
                             /\ IsTrimOf(records'[id].title, t)
                             /\ records'[id].version = 1 ]_vars

\* A record whose title had whitespace around and inside it has been
\* created, and a whitespace-only title has just been rejected.
C16_Witness ==
    /\ last = Outcome("createRecord", 400)
    /\ thrown = Thrown("AppError", FALSE)
    /\ \E id \in RecordIds :
         RecordExists(id) /\ records[id].title = <<"a", " ", "a">> /\ records[id].version = 1

\* C17: when createRecord is given a pdfFile and the text extraction, the
\* write to disk or the insert of the PdfFile row fails, createRecord still
\* returns and the Record it created is persisted.
C17_PdfFailureKeepsRecord ==
    [][ last'.op = "createRecord" =>
          \A pdf \in PdfArgs \ {NoPdf, "ok"} :
            CreateRecordWith("createRecord", NoFault, pdf, FALSE, GoodCreate.title,
                             GoodCreate.cabinetId, GoodCreate.creatorId, GoodCreate.status,
                             TRUE, NoFile)
              => /\ last'.code = 200
                 /\ \E id \in RecordIds : records[id] = NoRecord /\ RecordExists(id)' ]_vars

(***************************************************************************)
(* Errors and transactions.                                                *)
(***************************************************************************)
\* The failures after the commit of the activity log and of the notification.
PostCommitFaults(steps) ==
    { f \in FaultsAt(steps) : f.fail \in steps \cap {"activity", "notification"} }

\* C18: in updateRecord, modifyRecord, approveRecord and rejectRecord, when
\* the activity log or the notification fails after the commit, the call
\* still reports success and the committed mutation stays in place.
C18_PostCommitFailureIsSuccess ==
    [][ \A r \in RecordIds :
          RecordExists(r) =>
            /\ \A f \in PostCommitFaults(UpdateRecordSteps(Undef)) :
                 UpdateRecordWith(f, r, [EmptyPatch EXCEPT !.status = <<"pending">>],
                                  Undef, "u1")
                   => (last'.code = 200 /\ records'[r].lastModifiedBy = "u1")
            /\ \A f \in PostCommitFaults(ModifyRecordSteps(TxCreate.title)) :
                 ModifyRecord(f, NoPdf, r, TxCreate.title, "c2", "u1", "draft", TRUE)
                   => (last'.code = 200 /\ Len(otherVersions') = Len(otherVersions) + 1)
            /\ \A f \in PostCommitFaults(ApproveRecordSteps) :
                 ApproveRecordWith(f, r, "u3", Undef, EmptyPatch)
                   => (last'.code = 200 /\ records'[r].status = "approved")
            /\ \A f \in PostCommitFaults(RejectRecordSteps(Undef)) :
                 (RejectRecordCode(r, "u3") = 200
                    /\ RejectRecordWith(f, r, "u3", Undef, EmptyPatch))
                   => (last'.code = 200 /\ records'[r].status = "rejected") ]_vars

\* The operations that open a transaction.
TransactionalOps ==
    {"createRecord", "createRecordWithFiles", "deleteRecord", "updateRecord",
     "modifyRecord", "approveRecord", "rejectRecord"}

\* C19: in every operation that opens a transaction, when a step fails and
\* the rollback that follows fails too, the caller receives the error of the
\* step, never the error of the rollback.
C19_RollbackErrorNeverReachesCaller ==
    last.op \in TransactionalOps => thrown.error # "rollback"

\* C20: in createRecord, deleteRecord, updateRecord, modifyRecord,
\* approveRecord and rejectRecord, every NotFound, Forbidden and validation
\* error is raised while no transaction is open.
C20_ErrorsBeforeTransaction ==
    (last.op \in TransactionalOps \ {"createRecordWithFiles"} /\ thrown.error = "AppError")
      => ~thrown.inTx

(***************************************************************************)
(* validateCustomFields: what it accepts and what it returns.              *)
(***************************************************************************)
\* The call of validateCustomFields that has been made: its arguments, its
\* result, and the value submitted for a field.
Validated == calls["p1"].pc = "validated"
TheSchema == calls["p1"].cabinetFields
TheSubmission == calls["p1"].submittedFields
TheResult == calls["p1"].result
SubmittedFor(field) ==
    IF field.id \in DOMAIN TheSubmission THEN TheSubmission[field.id] ELSE Undefined

\* The value of a field is omitted: undefined, null or the empty string; for
\* an Attachment also an object with no value, filePath or fileName.
Omitted(field, v) ==
    \/ v \in {Undefined, Null, Str("")}
    \/ /\ field.type = "Attachment"
       /\ v.t = "object"
       /\ DOMAIN v.props \cap {"value", "filePath", "fileName"} = {}

\* The field types that have an empty value of their own shape, and that value.
ShapedTypes == FieldTypes \ {"Yes/No"}
EmptyOfShape(type) ==
    CASE type = "Tags/Labels" -> Arr(<<>>)
      [] type = "Attachment" -> EmptyObj
      [] OTHER -> Str("")

\* C21: validateCustomFields fails for every mandatory field whose value is
\* omitted, whatever the field type; and on a schema of one non-mandatory
\* field it does not fail when the submitted value is the empty value of the
\* field's shape (empty string, empty array, empty object).
C21_MandatoryOmissionFailsEmptyPasses ==
    Validated =>
      /\ \A i \in DOMAIN TheSchema :
           (TheSchema[i].isMandatory /\ Omitted(TheSchema[i], SubmittedFor(TheSchema[i])))
             => TheResult.err
      /\ ( /\ Len(TheSchema) = 1
           /\ ~TheSchema[1].isMandatory
           /\ TheSchema[1].type \in ShapedTypes
           /\ SubmittedFor(TheSchema[1]) = EmptyOfShape(TheSchema[1].type) )
           => ~TheResult.err

\* C22 as stated: when validateCustomFields succeeds, the keys of the result
\* are exactly the schema field ids that are keys of the submission.
C22_ResultKeysAreSubmittedSchemaIds ==
    (Validated /\ ~TheResult.err) =>
      DOMAIN TheResult.fields =
        { TheSchema[i].id : i \in DOMAIN TheSchema } \cap DOMAIN TheSubmission

\* C22, amended: when validateCustomFields succeeds, the keys of the result
\* are the ids of the schema fields whose submitted value is not undefined
\* (for an Attachment field: is truthy). Keys of the submission that are no
\* schema field id never appear, and a field that is no key of the
\* submission has no entry; a field of another type than Attachment that is
\* submitted as null has an entry, and its value is null.
C22_ResultKeysAreDefinedSchemaIds ==
    (Validated /\ ~TheResult.err) =>
      /\ DOMAIN TheResult.fields =
           { TheSchema[i].id :
               i \in { j \in DOMAIN TheSchema :
                         IF TheSchema[j].type = "Attachment"
                           THEN SubmittedFor(TheSchema[j]) \notin
                                  {Undefined, Null, Str(""), Num(0), NaN, Bool(FALSE)}
                           ELSE SubmittedFor(TheSchema[j]) # Undefined } }
      /\ \A i \in DOMAIN TheSchema :
           (TheSchema[i].type # "Attachment" /\ SubmittedFor(TheSchema[i]) = Null)
             => TheResult.fields[TheSchema[i].id].value = Null

\* A submission with a key outside the schema and a null for the Attachment
\* field f2 has been validated: the result has the entry of f1 only.
C22_Witness ==
    /\ Validated /\ ~TheResult.err
    /\ {"f1", "f2", "x"} \subseteq DOMAIN TheSubmission
    /\ TheSubmission["f2"] = Null
    /\ DOMAIN TheResult.fields = {"f1"}

\* The value is an object carrying fileName and filePath, itself or in its
\* `value` property.
CarriesFile(v) ==
    /\ v.t = "object"
    /\ \/ {"fileName", "filePath"} \subseteq DOMAIN v.props
       \/ /\ "value" \in DOMAIN v.props
          /\ v.props["value"].t = "object"
          /\ {"fileName", "filePath"} \subseteq DOMAIN v.props["value"].props

\* C23: a value submitted for an Attachment field that is not an object
\* carrying both fileName and filePath (a string, a number, an object
\* lacking one of them) makes validateCustomFields fail.
C23_AttachmentNeedsFileInfo ==
    Validated =>
      \A i \in DOMAIN TheSchema :
        ( /\ TheSchema[i].type = "Attachment"
          /\ SubmittedFor(TheSchema[i]) \notin {Undefined, Null}
          /\ ~CarriesFile(SubmittedFor(TheSchema[i])) )
          => TheResult.err

\* C30: when validateCustomFields succeeds, every mandatory field of another
\* type than Attachment has an entry in the result whose value is neither
\* null nor the empty string, also when the value was submitted wrapped as
\* {value: ...}.
C30_MandatoryFieldsHaveValues ==
    (Validated /\ ~TheResult.err) =>
      \A i \in DOMAIN TheSchema :
        (TheSchema[i].isMandatory /\ TheSchema[i].type # "Attachment")
          => /\ TheSchema[i].id \in DOMAIN TheResult.fields
             /\ TheResult.fields[TheSchema[i].id].value \notin {Null, Str("")}

(***************************************************************************)
(* processPdfFile: the result when extraction fails.                       *)
(***************************************************************************)
\* k is the number of whole kilobytes nearest to size bytes, a half counting
\* upwards.
NearestKB(size, k) == 1024 * k - 512 <= size /\ size < 1024 * k + 512

\* C24: processPdfFile never raises; when the extraction fails at any of its
\* steps the result is the text 'PDF text extraction failed', the two fields
\* Document Name (the file's original name) and File Size (the size in bytes
\* divided by 1024 and rounded to the nearest integer, followed by ' KB'),
\* and a page count of 1.
C24_ProcessPdfFileFallsBack ==
    calls["p1"].pc = "processed" =>
      /\ ~calls["p1"].result.err
      /\ thrown = NoError
      /\ calls["p1"].fail \in ExtractSteps =>
           LET r == calls["p1"].result.value
           IN  /\ DOMAIN r = {"extractedText", "extractedFields", "pageCount"}
               /\ r.extractedText = "PDF text extraction failed"
               /\ r.pageCount = 1
               /\ Len(r.extractedFields) = 2
               /\ r.extractedFields[1] =
                    [name |-> "Document Name", value |-> calls["p1"].file.originalname]
               /\ r.extractedFields[2].name = "File Size"
               /\ \E k \in 0..11 :
                    /\ NearestKB(calls["p1"].file.size, k)
                    /\ r.extractedFields[2].value = ToString(k) \o " KB"

\* The extraction of a file of one and a half kilobytes has failed and
\* processPdfFile has returned.
C24_Witness ==
    /\ calls["p1"].pc = "processed"
    /\ calls["p1"].fail = "extract"
    /\ calls["p1"].file.size = 1536
    /\ calls["p1"].result.value.extractedFields[2].value = "2 KB"

(***************************************************************************)
(* createNewVersion and deleteVersion when a statement fails.              *)
(***************************************************************************)
\* C25: createNewVersion and deleteVersion are all-or-nothing: a call that
\* throws leaves every Record and every RecordVersion as it was before the
\* call, so a createNewVersion that fails at its Record update leaves no new
\* RecordVersion and a deleteVersion that fails at its destroy leaves the
\* Record as it was.
C25_VersionCallsAllOrNothing ==
    [][ (last'.op \in {"createNewVersion", "deleteVersion"} /\ last'.code # 200)
          => (versions' = versions /\ records' = records) ]_vars

\* C28: over the createNewVersion and deleteVersion calls made on a record,
\* the version numbers createNewVersion assigns are strictly increasing, so
\* that no number is assigned twice, also after the RecordVersion with the
\* highest number was deleted.
C28_AssignedNumbersIncrease ==
    \A r \in RecordIds :
      \A i, j \in DOMAIN hist[r] :
        (i < j /\ hist[r][i].kind = "create" /\ hist[r][j].kind = "create")
          => hist[r][i].version < hist[r][j].version

(***************************************************************************)
(* Requests that run at the same time.                                     *)
(***************************************************************************)
\* The number of versions createNewVersion gave record r, and the number
\* deleteVersion took from it.
Created(r) == Cardinality({ i \in DOMAIN hist[r] : hist[r][i].kind = "create" })
Deleted(r) == Cardinality({ i \in DOMAIN hist[r] : hist[r][i].kind = "delete" })

\* C26: deleteVersion calls on one record, also two that run interleaved on
\* a record with exactly two versions and name different versions, never
\* delete every version: fewer versions are deleted than were created, so
\* of the two calls at most one deletes and the record keeps a version.
C26_InterleavedDeletesKeepAVersion ==
    \A r \in RecordIds :
      Created(r) > 0 => (Deleted(r) < Created(r) /\ Cardinality(VersionsOf(r)) >= 1)

\* C27: in every interleaving of rejectRecord with approveRecord or
\* updateRecord on the same record, whenever a rejectRecord commits its
\* write of status rejected, the committed status of the record just before
\* is pending.
C27_RejectWritesOverPendingOnly ==
    [][ \A p \in Procs :
          ( /\ calls[p].pc = "commit"
            /\ calls[p].op = "rejectRecord"
            /\ calls'[p].pc = "return" )
          => records[calls[p].recordId].status = "pending" ]_vars

\* C29: in every reachable state, also when two modifyRecord calls on the
\* same record run interleaved, no two RecordOtherVersion rows with the same
\* originalRecordId carry the same version.
C29_SnapshotNumbersUnique ==
    \A i, j \in DOMAIN otherVersions :
      ( /\ i # j
        /\ otherVersions[i].originalRecordId = otherVersions[j].originalRecordId )
      => otherVersions[i].version # otherVersions[j].version
====
